---- MODULE Spec2Model ----
(***************************************************************************)
(* A model of the pair-ratio strategy of sinly_quant:                      *)
(*   - SwingLevels (my_indicators/swing_levels.py): the sliding-window     *)
(*     pivot detector;                                                     *)
(*   - PairRatioStrategy (strategies/pair_ratio.py): the bar ledger        *)
(*     df_history, the breakout / rebalance engine, the sizing cycle       *)
(*     _calc_submit_orders and the deferred-buy sequencer.                  *)
(*                                                                         *)
(* Floats are modelled as exact integers / rationals: prices and           *)
(* quantities are naturals, ratio_h is RatioNum / RatioDen.                *)
(***************************************************************************)
EXTENDS Integers, Sequences, FiniteSets, TLC

\* Python's None.  Every modelled number is >= 0.
None == 0 - 1

\* ------------------------------------------------------------------------
\* Bounds of the model
\* ------------------------------------------------------------------------
\* Largest swing_size_l / swing_size_r tried by the detector specification.
MaxSwing == 2
\* Number of handle_bar calls of the detector specification.
MaxSwingBars == 6
\* Highs and lows fed to the detector are drawn from 1..MaxVal (low <= high).
MaxVal == 3
\* swing_size_l and swing_size_r of the strategy's detectors.
StratSwingL == 1
StratSwingR == 1
\* Bars carry the timestamps 1..MaxTs.
MaxTs == 6
\* Sizing cycles per run.
MaxCycles == 4
\* Bars per run of each short asset stream, each long asset stream, the
\* ratio-long stream and the ratio-short stream.
MaxShortAssetBars == 1
MaxLongAssetBars == 0
MaxLongBars == 4
MaxShortBars == 3
\* Orders the venue rejects or denies per run.
MaxRefused == 1
\* Sizing cycles per run of the sizing specification.
MaxSizingRuns == 2
\* The account's starting balance.
InitialCash == 20
\* The ledger specifications: bars carry the timestamps 1..MaxLedgerTs; a run
\* delivers MaxLedgerBars bars in any order of timestamps, or MaxOrderedBars
\* bars in non-decreasing order of timestamps.
MaxLedgerTs == 3
MaxLedgerBars == 3
MaxOrderedBars == 4
\* The specification of the account that may already hold asset A: the
\* quantity held, the timestamps 1..MaxHeldTs, and the bars per run of the
\* asset streams (beyond the first bar of each short asset stream), the
\* ratio-long stream and the ratio-short stream.
HeldQty == 4
MaxHeldTs == 5
MaxHeldAssetBars == 1
MaxHeldLongBars == 4
MaxHeldShortBars == 1

\* the fill log: timestamps per calendar date, and the feed of its
\* specification
TsPerDay == 2
MaxDailyTs == 5
MaxDailyLongBars == 5
MaxDailyAssetBars == 1

\* the specification of pivots confirmed in pairs: timestamps and ratio-long
\* bars per run
MaxTieTs == 5
MaxTieLongBars == 5

\* the specification of breakouts against single and paired pivots:
\* timestamps, ratio-long bars and ratio-short bars per run
MaxBosTs == 5
MaxBosLongBars == 4
MaxBosShortBars == 2

VARIABLES
    swing_size_l,      \* SwingLevels.swing_size_l
    swing_size_r,      \* SwingLevels.swing_size_r
    swing_levels_l,    \* the SwingLevels instance fed by the ratio-long stream
    swing_calls,       \* number of handle_bar calls made on swing_levels_l
    cache,             \* cache_a_s .. cache_ratio_l: stream -> OHLC
    df_history,        \* the ledger: rows in positional order
    pending_buy_instruction,  \* <<>> (None) or <<instruction>>
    last_acted_breakout,      \* <<>> (None) or <<swing timestamp, direction>>
    orders,            \* every order passed to submit_order, in order
    fresh,             \* the orders submitted by the latest bar or fill handler
    qty,               \* the portfolio: quantity held per instrument
    cash,              \* the account: free balance
    now,               \* timestamp of the latest bar delivered
    delivered,         \* streams that delivered their bar of timestamp now
    bars_seen,         \* number of bars delivered so far, per stream
    cycles,            \* number of _calc_submit_orders calls so far
    last_event,        \* what the latest handler call was and did
    short_log,         \* what the last two ratio-short bars did
    bos_cycles,        \* the cycles run by _bos_allocation, in order
    current_allocation_type,  \* "unset" until _calc_submit_orders sets it
    daily_fills_log,   \* the per-day fill records, in insertion order
    seen_ts,           \* the timestamps of the bars delivered so far
    confirmed_at       \* timestamps of the ratio-long bars that confirmed a pivot

swing_vars == <<swing_size_l, swing_size_r, swing_levels_l, swing_calls>>

strat_vars == <<cache, df_history, pending_buy_instruction, last_acted_breakout,
                orders, fresh, qty, cash, now, delivered, bars_seen, cycles, last_event,
                short_log, bos_cycles, current_allocation_type, daily_fills_log,
                seen_ts, confirmed_at>>

vars == <<swing_size_l, swing_size_r, swing_levels_l, swing_calls,
          cache, df_history, pending_buy_instruction, last_acted_breakout,
          orders, fresh, qty, cash, now, delivered, bars_seen, cycles, last_event,
          short_log, bos_cycles, current_allocation_type, daily_fills_log,
                seen_ts, confirmed_at>>

\* ------------------------------------------------------------------------
\* Sequence helpers
\* ------------------------------------------------------------------------
SeqMax(s) == CHOOSE x \in {s[i] : i \in 1..Len(s)} :
                 \A y \in {s[i] : i \in 1..Len(s)} : y <= x

SeqMin(s) == CHOOSE x \in {s[i] : i \in 1..Len(s)} :
                 \A y \in {s[i] : i \in 1..Len(s)} : x <= y

\* collections.deque(maxlen = n).append(x): the oldest entry is evicted
\* when the deque is full.
DequeAppend(s, x, n) == IF Len(s) >= n THEN Append(Tail(s), x) ELSE Append(s, x)

\* WindowSize without the candidate's own slot
WindowSizeShort(L, R) == L + R

\* ------------------------------------------------------------------------
\* SwingLevels
\* ------------------------------------------------------------------------
\* self._window_size
WindowSize(L, R) == L + R + 1

\* SwingLevels.__init__
SwingInit == [ highs |-> <<>>, lows |-> <<>>, bars |-> <<>>,
               pivot_high |-> None, pivot_low |-> None,
               pivot_high_history |-> <<>>, pivot_low_history |-> <<>> ]

\* IsPivotHigh without the test of line 71
IsPivotHighNoFlatGuard(highs, L) == highs[L + 1] = SeqMax(highs)

\* IsPivotHigh comparing the candidate with the bars up to it only
IsPivotHighLeftOnly(highs, L) ==
    /\ highs[L + 1] = SeqMax(SubSeq(highs, 1, L + 1))
    /\ highs[L + 1] > SeqMin(highs)

\* Step 5 of handle_bar: the candidate is a pivot high.
IsPivotHigh(highs, L) ==
    /\ highs[L + 1] = SeqMax(highs)
    /\ highs[L + 1] > SeqMin(highs)

\* IsPivotLow without the test of line 79
IsPivotLowNoFlatGuard(lows, L) == lows[L + 1] = SeqMin(lows)

\* IsPivotLow comparing the candidate with the bars up to it only
IsPivotLowLeftOnly(lows, L) ==
    /\ lows[L + 1] = SeqMin(SubSeq(lows, 1, L + 1))
    /\ lows[L + 1] < SeqMax(lows)

\* Step 6 of handle_bar: the candidate is a pivot low.
IsPivotLow(lows, L) ==
    /\ lows[L + 1] = SeqMin(lows)
    /\ lows[L + 1] < SeqMax(lows)

\* handle_bar appending the newest bar of the window to the histories
HandleBarNewest(sw, bar, L, R) ==
    LET W     == WindowSize(L, R)
        highs == DequeAppend(sw.highs, bar.high, W)
        lows  == DequeAppend(sw.lows, bar.low, W)
        bars  == DequeAppend(sw.bars, bar, W)
        full  == Len(highs) >= W
        ph    == full /\ IsPivotHigh(highs, L)
        pl    == full /\ IsPivotLow(lows, L)
    IN  [ highs |-> highs, lows |-> lows, bars |-> bars,
          pivot_high |-> IF ph THEN highs[L + 1] ELSE None,
          pivot_low  |-> IF pl THEN lows[L + 1] ELSE None,
          pivot_high_history |->
              IF ph THEN Append(sw.pivot_high_history, bars[Len(bars)])
                    ELSE sw.pivot_high_history,
          pivot_low_history |->
              IF pl THEN Append(sw.pivot_low_history, bars[Len(bars)])
                    ELSE sw.pivot_low_history ]

\* handle_bar withdrawing the pivots a more extreme bar overtakes
HandleBarRetract(sw, bar, L, R) ==
    LET W     == WindowSize(L, R)
        highs == DequeAppend(sw.highs, bar.high, W)
        lows  == DequeAppend(sw.lows, bar.low, W)
        bars  == DequeAppend(sw.bars, bar, W)
        full  == Len(highs) >= W
        ph    == full /\ IsPivotHigh(highs, L)
        pl    == full /\ IsPivotLow(lows, L)
        keptH == SelectSeq(sw.pivot_high_history, LAMBDA b : b.high >= bar.high)
        keptL == SelectSeq(sw.pivot_low_history, LAMBDA b : b.low <= bar.low)
    IN  [ highs |-> highs, lows |-> lows, bars |-> bars,
          pivot_high |-> IF ph THEN highs[L + 1] ELSE None,
          pivot_low  |-> IF pl THEN lows[L + 1] ELSE None,
          pivot_high_history |->
              IF ph THEN Append(keptH, bars[Len(bars) - R]) ELSE keptH,
          pivot_low_history |->
              IF pl THEN Append(keptL, bars[Len(bars) - R]) ELSE keptL ]

\* SwingLevels.handle_bar(bar): sw is the indicator's state, bar a record
\* with fields high and low (and whatever identifies the bar).
\* Python index candidate_idx = L is position L + 1 here; for a full window
\* self._bars[-R-1] is position W - R = L + 1 as well.
HandleBar(sw, bar, L, R) ==
    LET W     == WindowSize(L, R)
        highs == DequeAppend(sw.highs, bar.high, W)
        lows  == DequeAppend(sw.lows, bar.low, W)
        bars  == DequeAppend(sw.bars, bar, W)
        full  == Len(highs) >= W
        ph    == full /\ IsPivotHigh(highs, L)
        pl    == full /\ IsPivotLow(lows, L)
    IN  [ highs |-> highs, lows |-> lows, bars |-> bars,
          pivot_high |-> IF ph THEN highs[L + 1] ELSE None,
          pivot_low  |-> IF pl THEN lows[L + 1] ELSE None,
          pivot_high_history |->
              IF ph THEN Append(sw.pivot_high_history, bars[Len(bars) - R])
                    ELSE sw.pivot_high_history,
          pivot_low_history |->
              IF pl THEN Append(sw.pivot_low_history, bars[Len(bars) - R])
                    ELSE sw.pivot_low_history ]

\* ------------------------------------------------------------------------
\* PairRatioStrategy: data
\* ------------------------------------------------------------------------
\* bar_a_s, bar_b_s, bar_ratio_s, bar_a_l, bar_b_l, bar_ratio_l
Streams == {"a_s", "b_s", "ratio_s", "a_l", "b_l", "ratio_l"}

\* bar_a_s.instrument_id and bar_b_s.instrument_id
Instruments == {"A", "B"}

\* {'o': None, 'h': None, 'l': None, 'c': None}
NoBar == [o |-> None, h |-> None, l |-> None, c |-> None]

NoEvent == [type |-> "none"]

\* split_ratio = 0.90, as the fraction RatioNum / RatioDen
RatioNum == 9
RatioDen == 10

\* format(price, '.4f'): a price string has four decimals
PriceScale == 10000

\* thresh_hold = 0.02, as the fraction ThreshHold / ThreshDen
ThreshHold == 2
ThreshDen == 100

\* pd.isna / pd.notna on a ledger cell
IsNa(v) == v = None
NotNa(v) == v # None

\* Python truthiness of an optional float: None and 0.0 are falsy
Truthy(v) == v # None /\ v # 0

\* ------------------------------------------------------------------------
\* The ledger (df_history)
\* ------------------------------------------------------------------------
\* positions of the rows whose index is ts (at most one)
RowsAt(hist, ts) == { i \in 1..Len(hist) : hist[i].ts = ts }

SetMax(S) == CHOOSE x \in S : \A y \in S : y <= x

\* LastRowPos taking the row of ts itself as the reference of an update
LastRowPosSelf(hist, ts) ==
    IF Len(hist) = 0 THEN 0
    ELSE IF hist[Len(hist)].ts <= ts THEN Len(hist)
    ELSE LET before == { i \in 1..Len(hist) : hist[i].ts <= ts }
         IN  IF before = {} THEN 0 ELSE SetMax(before)

\* on_bar lines 142-156: the reference row strictly before ts, as a
\* position in hist; 0 if there is none
LastRowPos(hist, ts) ==
    IF Len(hist) = 0 THEN 0
    ELSE IF hist[Len(hist)].ts < ts THEN Len(hist)
    ELSE IF hist[Len(hist)].ts = ts THEN (IF Len(hist) > 1 THEN Len(hist) - 1 ELSE 0)
    ELSE LET before == { i \in 1..Len(hist) : hist[i].ts < ts }
         IN  IF before = {} THEN 0 ELSE SetMax(before)

\* is_diff(v1, v2)
IsDiff(v1, v2) ==
    IF IsNa(v1) /\ IsNa(v2) THEN FALSE
    ELSE IF IsNa(v1) # IsNa(v2) THEN TRUE
    ELSE v1 # v2

\* LongDiffers looking at the ratio's long bar only
LongDiffersRatioOnly(c, row) ==
    \/ IsDiff(c["ratio_l"].o, row.c["ratio_l"].o)
    \/ IsDiff(c["ratio_l"].h, row.c["ratio_l"].h)
    \/ IsDiff(c["ratio_l"].l, row.c["ratio_l"].l)
    \/ IsDiff(c["ratio_l"].c, row.c["ratio_l"].c)

\* any(is_diff(curr, last) for curr, last in long_vals)
LongDiffers(c, row) ==
    \E s \in {"a_l", "b_l", "ratio_l"} :
        \/ IsDiff(c[s].o, row.c[s].o)
        \/ IsDiff(c[s].h, row.c[s].h)
        \/ IsDiff(c[s].l, row.c[s].l)
        \/ IsDiff(c[s].c, row.c[s].c)

\* l_index of the row written for ts
LIndex(hist, c, ts) ==
    LET p == LastRowPos(hist, ts)
    IN  IF p = 0 THEN 0
        ELSE IF LongDiffers(c, hist[p]) THEN hist[p].l_index + 1
        ELSE hist[p].l_index

\* the dict "data": the caches, l_index and the long indicator's outputs
\* (the swing_s_* columns are written and never read; they are left out)
RowData(hist, c, sw, ts) ==
    [ ts |-> ts, l_index |-> LIndex(hist, c, ts), c |-> c,
      swing_l_low |-> sw.pivot_low, swing_l_high |-> sw.pivot_high ]

\* Upsert without the test of line 200
UpsertAppendOnly(hist, c, sw, ts) == Append(hist, RowData(hist, c, sw, ts))

\* Upsert carrying the caches into the rows after the row of ts as well
UpsertForwardFill(hist, c, sw, ts) ==
    LET row == RowData(hist, c, sw, ts)
        new == IF RowsAt(hist, ts) # {}
               THEN [ i \in 1..Len(hist) |-> IF hist[i].ts = ts THEN row ELSE hist[i] ]
               ELSE Append(hist, row)
    IN  [ i \in 1..Len(new) |->
            IF new[i].ts > ts THEN [new[i] EXCEPT !.c = c] ELSE new[i] ]

\* lines 199-211: df_history.loc[ts] = ... or pd.concat([df_history, new_row])
Upsert(hist, c, sw, ts) ==
    LET row == RowData(hist, c, sw, ts)
    IN  IF RowsAt(hist, ts) # {}
        THEN [ i \in 1..Len(hist) |-> IF hist[i].ts = ts THEN row ELSE hist[i] ]
        ELSE Append(hist, row)

\* PreSwingPos without the drop of lines 249-250
PreSwingPosInclusive(hist, ts) ==
    LET cand == { i \in 1..Len(hist) :
                    NotNa(hist[i].swing_l_high) \/ NotNa(hist[i].swing_l_low) }
    IN  IF cand = {} THEN 0 ELSE SetMax(cand)

\* lines 248-255: position of the previous confirmed swing row, 0 if none:
\* the last row, other than the row of ts, with a swing_l value
PreSwingPos(hist, ts) ==
    LET cand == { i \in 1..Len(hist) :
                    /\ (NotNa(hist[i].swing_l_high) \/ NotNa(hist[i].swing_l_low))
                    /\ hist[i].ts # ts }
    IN  IF cand = {} THEN 0 ELSE SetMax(cand)

\* ------------------------------------------------------------------------
\* The sizing cycle (_calc_submit_orders)
\* ------------------------------------------------------------------------
\* limit_price = format(cur_price, '.4f'), in units of 1 / PriceScale
FormatPrice(p) == p * PriceScale

\* TargetQtyH rounding the quotient up
TargetQtyHCeil(total_position, price) ==
    ((total_position * RatioNum) + (RatioDen * price - 1)) \div (RatioDen * price)

\* target_qty_h = (total_position * ratio_h) // cur_price_buy
TargetQtyH(total_position, price) == (total_position * RatioNum) \div (RatioDen * price)

\* TargetQtyL rounding the quotient up
TargetQtyLCeil(total_position, price) ==
    ((total_position * RatioDen - total_position * RatioNum) + (RatioDen * price - 1))
        \div (RatioDen * price)

\* target_qty_l = (total_position - total_position * ratio_h) // cur_price_sell
TargetQtyL(total_position, price) ==
    (total_position * RatioDen - total_position * RatioNum) \div (RatioDen * price)

\* qty_to_sell_l
QtyToSellL(asset_l, total_position) == asset_l.qty - TargetQtyL(total_position, asset_l.price)

\* qty_to_buy_h
QtyToBuyH(asset_h, total_position) == TargetQtyH(total_position, asset_h.price) - asset_h.qty

\* order_factory.limit(...) as passed to submit_order; cycle and via record
\* which sizing cycle the order belongs to and where it was submitted
LimitOrder(inst, side, q, price, reduce_only, cyc, via) ==
    [ instrument_id |-> inst, side |-> side, quantity |-> q, price |-> price,
      type |-> "LIMIT", time_in_force |-> "GTC", reduce_only |-> reduce_only,
      status |-> "open", cycle |-> cyc, via |-> via ]

\* CycleSells without the reduce_only flag
CycleSellsNotReduceOnly(asset_h, asset_l, total_position, cyc) ==
    LET dl == QtyToSellL(asset_l, total_position)
        dh == QtyToBuyH(asset_h, total_position)
        s1 == IF dl > 0
              THEN << LimitOrder(asset_l.id, "SELL", dl, FormatPrice(asset_l.price),
                                 FALSE, cyc, "cycle") >>
              ELSE << >>
        s2 == IF dh < 0
              THEN << LimitOrder(asset_h.id, "SELL", 0 - dh, FormatPrice(asset_h.price),
                                 FALSE, cyc, "cycle") >>
              ELSE << >>
    IN  s1 \o s2

\* lines 451-475: the SELL orders of a cycle, in submission order
CycleSells(asset_h, asset_l, total_position, cyc) ==
    LET dl == QtyToSellL(asset_l, total_position)
        dh == QtyToBuyH(asset_h, total_position)
        s1 == IF dl > 0
              THEN << LimitOrder(asset_l.id, "SELL", dl, FormatPrice(asset_l.price),
                                 TRUE, cyc, "cycle") >>
              ELSE << >>
        s2 == IF dh < 0
              THEN << LimitOrder(asset_h.id, "SELL", 0 - dh, FormatPrice(asset_h.price),
                                 TRUE, cyc, "cycle") >>
              ELSE << >>
    IN  s1 \o s2

\* lines 499-505: the calls of execute_or_defer_buy with qty > 0, in order
CycleBuys(asset_h, asset_l, total_position) ==
    LET dl == QtyToSellL(asset_l, total_position)
        dh == QtyToBuyH(asset_h, total_position)
        b1 == IF dl < 0
              THEN << [instrument_id |-> asset_l.id, quantity |-> 0 - dl,
                       price |-> FormatPrice(asset_l.price)] >>
              ELSE << >>
        b2 == IF dh > 0
              THEN << [instrument_id |-> asset_h.id, quantity |-> dh,
                       price |-> FormatPrice(asset_h.price)] >>
              ELSE << >>
    IN  b1 \o b2

\* ImmediateBuys taking the "else" branch whatever sold_something is
ImmediateBuysAlways(buys, sold_something, cyc) ==
    [ i \in 1..Len(buys) |->
        LimitOrder(buys[i].instrument_id, "BUY", buys[i].quantity, buys[i].price,
                   FALSE, cyc, "cycle") ]

\* execute_or_defer_buy, branch "else": the BUY orders submitted at once
ImmediateBuys(buys, sold_something, cyc) ==
    IF sold_something THEN << >>
    ELSE [ i \in 1..Len(buys) |->
             LimitOrder(buys[i].instrument_id, "BUY", buys[i].quantity, buys[i].price,
                        FALSE, cyc, "cycle") ]

\* DeferredSlot storing the buy whatever sold_something is
DeferredSlotAlways(slot, buys, sold_something, cyc) ==
    IF Len(buys) > 0
    THEN << [ instrument_id |-> buys[Len(buys)].instrument_id,
              quantity |-> buys[Len(buys)].quantity,
              price |-> buys[Len(buys)].price,
              cycle |-> cyc ] >>
    ELSE slot

\* DeferredSlot keeping an instruction that is already stored
DeferredSlotIfEmpty(slot, buys, sold_something, cyc) ==
    IF sold_something /\ Len(buys) > 0 /\ slot = <<>>
    THEN << [ instrument_id |-> buys[Len(buys)].instrument_id,
              quantity |-> buys[Len(buys)].quantity,
              price |-> buys[Len(buys)].price,
              cycle |-> cyc ] >>
    ELSE slot

\* DeferredSlot in which the earlier instruction wins over the newer one
DeferredSlotEarlierWins(slot, buys, sold_something, cyc) ==
    IF slot # <<>> THEN slot
    ELSE IF sold_something /\ Len(buys) > 0
    THEN << [ instrument_id |-> buys[Len(buys)].instrument_id,
              quantity |-> buys[Len(buys)].quantity,
              price |-> buys[Len(buys)].price,
              cycle |-> cyc ] >>
    ELSE slot

\* execute_or_defer_buy, branch "if sold_something": each deferred buy
\* overwrites the slot, so the last one stays
DeferredSlot(slot, buys, sold_something, cyc) ==
    IF sold_something /\ Len(buys) > 0
    THEN << [ instrument_id |-> buys[Len(buys)].instrument_id,
              quantity |-> buys[Len(buys)].quantity,
              price |-> buys[Len(buys)].price,
              cycle |-> cyc ] >>
    ELSE slot

\* lines 437-444: the classification the cycle logs; ratio_threshold is in
\* units of 1 / ThreshDen
RebalanceKind(asset_l, total_position, ratio_threshold) ==
    LET val_low == asset_l.qty * asset_l.price
        bound   == RatioNum * ThreshDen - ratio_threshold * RatioDen
    IN  IF total_position > 0
        THEN (IF val_low * ThreshDen * RatioDen > bound * total_position
              THEN "flip" ELSE "adjust")
        ELSE (IF 0 > bound THEN "flip" ELSE "adjust")

\* CalcSubmitOrders placing orders for a "flip" only
CalcSubmitOrdersGated(st, asset_h, asset_l, total_position, ratio_threshold, cyc) ==
    LET sells == CycleSells(asset_h, asset_l, total_position, cyc)
        buys  == CycleBuys(asset_h, asset_l, total_position)
        sold_something == Len(sells) > 0
        kind  == RebalanceKind(asset_l, total_position, ratio_threshold)
    IN  IF kind = "flip"
        THEN [ orders  |-> st.orders \o sells \o ImmediateBuys(buys, sold_something, cyc),
               pending |-> DeferredSlot(st.pending, buys, sold_something, cyc),
               sold_something |-> sold_something, kind |-> kind,
               qty_to_sell_l |-> QtyToSellL(asset_l, total_position),
               qty_to_buy_h |-> QtyToBuyH(asset_h, total_position) ]
        ELSE [ orders |-> st.orders, pending |-> st.pending,
               sold_something |-> FALSE, kind |-> kind,
               qty_to_sell_l |-> QtyToSellL(asset_l, total_position),
               qty_to_buy_h |-> QtyToBuyH(asset_h, total_position) ]

\* _calc_submit_orders: the orders list and the pending slot after the
\* cycle, and the classification it logged
CalcSubmitOrders(st, asset_h, asset_l, total_position, ratio_threshold, cyc) ==
    LET sells == CycleSells(asset_h, asset_l, total_position, cyc)
        buys  == CycleBuys(asset_h, asset_l, total_position)
        sold_something == Len(sells) > 0
    IN  [ orders  |-> st.orders \o sells \o ImmediateBuys(buys, sold_something, cyc),
          pending |-> DeferredSlot(st.pending, buys, sold_something, cyc),
          sold_something |-> sold_something,
          kind |-> RebalanceKind(asset_l, total_position, ratio_threshold),
          qty_to_sell_l |-> QtyToSellL(asset_l, total_position),
          qty_to_buy_h |-> QtyToBuyH(asset_h, total_position) ]

\* ------------------------------------------------------------------------
\* on_bar: which trigger fires
\* ------------------------------------------------------------------------
\* val_a + val_b (lines 234-241)
TotalEquity(q, c) ==
    (IF q["A"] > 0 THEN q["A"] * c["a_s"].c ELSE 0)
  + (IF q["B"] > 0 THEN q["B"] * c["b_s"].c ELSE 0)

\* total_position (line 240)
TotalPosition(q, c, csh) == csh + TotalEquity(q, c)

AssetA(q, c) == [id |-> "A", price |-> c["a_s"].c, qty |-> q["A"]]
AssetB(q, c) == [id |-> "B", price |-> c["b_s"].c, qty |-> q["B"]]

\* a decision: which path of on_bar was taken, whether it runs a sizing
\* cycle, and with which asset as asset_h
Decision(path, runs, high, dir, swing_ts, level) ==
    [ path |-> path, runs |-> runs, high |-> high, dir |-> dir,
      swing_ts |-> swing_ts, level |-> level ]

NoCycle(path) == Decision(path, FALSE, "none", "none", 0, None)

\* _bos_allocation, the test of line 325
BosLowCond(latest_row, pre_low) ==
    NotNa(pre_low) /\ latest_row.c["ratio_s"].l < pre_low

\* BosHighCond with >= for >
BosHighCondNonStrict(latest_row, pre_high) ==
    NotNa(pre_high) /\ latest_row.c["ratio_s"].h >= pre_high

\* _bos_allocation, the test of line 340 (an elif of the test of line 325)
BosHighCond(latest_row, pre_high) ==
    NotNa(pre_high) /\ latest_row.c["ratio_s"].h > pre_high

\* IsDuplicate with the directions of lines 327 and 342 exchanged
IsDuplicateOtherDir(marker, swing_ts, dir) ==
    marker = <<swing_ts, IF dir = "low" THEN "high" ELSE "low">>

\* the duplication check of lines 327 and 342
IsDuplicate(marker, swing_ts, dir) == marker = <<swing_ts, dir>>

\* BosAllocation going on to the pivot-high when the low breakout is a
\* duplicate
BosAllocationFallsToHigh(latest_row, pre_low, pre_high, pre_ts, marker) ==
    IF (NotNa(pre_low) /\ IsNa(latest_row.c["ratio_s"].l))
       \/ (~BosLowCond(latest_row, pre_low) /\ NotNa(pre_high)
           /\ IsNa(latest_row.c["ratio_s"].h))
    THEN NoCycle("error")
    ELSE IF BosLowCond(latest_row, pre_low) /\ ~IsDuplicate(marker, pre_ts, "low")
    THEN Decision("bos", TRUE, "B", "low", pre_ts, pre_low)
    ELSE IF BosHighCond(latest_row, pre_high)
    THEN IF ~IsDuplicate(marker, pre_ts, "high")
         THEN Decision("bos", TRUE, "A", "high", pre_ts, pre_high)
         ELSE Decision("bos_dup", FALSE, "none", "high", pre_ts, pre_high)
    ELSE IF BosLowCond(latest_row, pre_low)
    THEN Decision("bos_dup", FALSE, "none", "low", pre_ts, pre_low)
    ELSE NoCycle("bos_none")

\* _bos_allocation
BosAllocation(latest_row, pre_low, pre_high, pre_ts, marker) ==
    IF (NotNa(pre_low) /\ IsNa(latest_row.c["ratio_s"].l))
       \/ (~BosLowCond(latest_row, pre_low) /\ NotNa(pre_high)
           /\ IsNa(latest_row.c["ratio_s"].h))
    THEN NoCycle("error")      \* None < float raises TypeError
    ELSE IF BosLowCond(latest_row, pre_low)
    THEN IF ~IsDuplicate(marker, pre_ts, "low")
         THEN Decision("bos", TRUE, "B", "low", pre_ts, pre_low)
         ELSE Decision("bos_dup", FALSE, "none", "low", pre_ts, pre_low)
    ELSE IF BosHighCond(latest_row, pre_high)
    THEN IF ~IsDuplicate(marker, pre_ts, "high")
         THEN Decision("bos", TRUE, "A", "high", pre_ts, pre_high)
         ELSE Decision("bos_dup", FALSE, "none", "high", pre_ts, pre_high)
    ELSE NoCycle("bos_none")

\* NormalAllocation with the two assets exchanged
NormalAllocationSwapped(latest_row) ==
    IF IsNa(latest_row.swing_l_low) /\ IsNa(latest_row.swing_l_high)
    THEN NoCycle("normal_none")
    ELSE IF NotNa(latest_row.swing_l_low)
    THEN Decision("normal", TRUE, "B", "low", latest_row.ts, latest_row.swing_l_low)
    ELSE Decision("normal", TRUE, "A", "high", latest_row.ts, latest_row.swing_l_high)

\* NormalAllocation looking at the pivot-high first
NormalAllocationHighFirst(latest_row) ==
    IF IsNa(latest_row.swing_l_low) /\ IsNa(latest_row.swing_l_high)
    THEN NoCycle("normal_none")
    ELSE IF NotNa(latest_row.swing_l_high)
    THEN Decision("normal", TRUE, "B", "high", latest_row.ts, latest_row.swing_l_high)
    ELSE Decision("normal", TRUE, "A", "low", latest_row.ts, latest_row.swing_l_low)

\* _normal_allocation (swing_l_history is not empty when it is called)
NormalAllocation(latest_row) ==
    IF IsNa(latest_row.swing_l_low) /\ IsNa(latest_row.swing_l_high)
    THEN NoCycle("normal_none")
    ELSE IF NotNa(latest_row.swing_l_low)
    THEN Decision("normal", TRUE, "A", "low", latest_row.ts, latest_row.swing_l_low)
    ELSE Decision("normal", TRUE, "B", "high", latest_row.ts, latest_row.swing_l_high)

\* Bootstrap with the two assets exchanged
BootstrapSwapped(latest_row) ==
    IF IsNa(latest_row.swing_l_low) /\ IsNa(latest_row.swing_l_high)
    THEN NoCycle("bootstrap_none")
    ELSE IF NotNa(latest_row.swing_l_low)
    THEN Decision("bootstrap", TRUE, "B", "low", latest_row.ts, latest_row.swing_l_low)
    ELSE Decision("bootstrap", TRUE, "A", "high", latest_row.ts, latest_row.swing_l_high)

\* lines 262-286: the first order
Bootstrap(latest_row) ==
    IF IsNa(latest_row.swing_l_low) /\ IsNa(latest_row.swing_l_high)
    THEN NoCycle("bootstrap_none")
    ELSE IF NotNa(latest_row.swing_l_low)
    THEN Decision("bootstrap", TRUE, "A", "low", latest_row.ts, latest_row.swing_l_low)
    ELSE Decision("bootstrap", TRUE, "B", "high", latest_row.ts, latest_row.swing_l_high)

\* line 227: a short-timeframe close is not known yet
NoPrice(c) == IsNa(c["a_s"].c) \/ IsNa(c["b_s"].c)

\* line 262: the condition of the first order (df_history is not empty
\* once the row of the bar is written)
BootstrapCase(stream, q, c) == TotalEquity(q, c) = 0 /\ stream = "ratio_l"

\* NoPreSwing without the return of lines 290-291
NoPreSwingIgnored(pre_high, pre_low) == FALSE

\* line 290: there is no previous swing long high or low
NoPreSwing(pre_high, pre_low) == ~Truthy(pre_high) /\ ~Truthy(pre_low)

\* EvaluatesBos without the test of the bar type
EvaluatesBosAnyBar(stream) == TRUE

\* line 294: _bos_allocation is called for bars of the ratio-short stream
EvaluatesBos(stream) == stream = "ratio_s"

\* line 305: _normal_allocation is called for bars of the ratio-long stream
EvaluatesNormal(stream) == stream = "ratio_l"

\* the calls of lines 294-315, in order: two tests of the bar type, one
\* after the other
LaterChecks(stream, latest_row, pre_low, pre_high, pre_ts, marker) ==
    LET bos    == IF EvaluatesBos(stream)
                  THEN << BosAllocation(latest_row, pre_low, pre_high, pre_ts, marker) >>
                  ELSE << >>
        normal == IF EvaluatesNormal(stream)
                  THEN << NormalAllocation(latest_row) >>
                  ELSE << >>
    IN  IF bos \o normal = << >> THEN << NoCycle("asset_bar") >> ELSE bos \o normal

\* Decide without the return of line 286
DecideFallThrough(stream, ts, hist, c, q, marker) ==
    LET pos        == PreSwingPos(hist, ts)
        pre_ts     == IF pos = 0 THEN 0 ELSE hist[pos].ts
        pre_high   == IF pos = 0 THEN None ELSE hist[pos].swing_l_high
        pre_low    == IF pos = 0 THEN None ELSE hist[pos].swing_l_low
        latest_row == hist[Len(hist)]
        first      == IF BootstrapCase(stream, q, c) /\ Bootstrap(latest_row).runs
                      THEN << Bootstrap(latest_row) >>
                      ELSE << >>
    IN  IF NoPrice(c) THEN << NoCycle("no_price") >>
        ELSE IF BootstrapCase(stream, q, c) /\ ~Bootstrap(latest_row).runs
        THEN << Bootstrap(latest_row) >>
        ELSE IF NoPreSwing(pre_high, pre_low)
        THEN (IF first = << >> THEN << NoCycle("no_pre_swing") >> ELSE first)
        ELSE first \o LaterChecks(stream, latest_row, pre_low, pre_high, pre_ts, marker)

\* on_bar from line 213 on: the decisions it takes, in order; hist and c are
\* the ledger and the caches after the row of the bar was written
Decide(stream, ts, hist, c, q, marker) ==
    LET pos        == PreSwingPos(hist, ts)
        pre_ts     == IF pos = 0 THEN 0 ELSE hist[pos].ts
        pre_high   == IF pos = 0 THEN None ELSE hist[pos].swing_l_high
        pre_low    == IF pos = 0 THEN None ELSE hist[pos].swing_l_low
        latest_row == hist[Len(hist)]
    IN  IF NoPrice(c) THEN << NoCycle("no_price") >>
        ELSE IF BootstrapCase(stream, q, c) THEN << Bootstrap(latest_row) >>
        ELSE IF NoPreSwing(pre_high, pre_low) THEN << NoCycle("no_pre_swing") >>
        ELSE LaterChecks(stream, latest_row, pre_low, pre_high, pre_ts, marker)

\* the decision of a bar that matters to the strategy's state: the last one
\* that runs a cycle, or the first if none does
Decisive(ds) == IF Len(ds) = 2 /\ ds[2].runs THEN ds[2] ELSE ds[1]

\* the sizing cycle a decision runs, if it runs one
RunDecision(d, st, q, c, csh, cyc) ==
    IF d.runs
    THEN CalcSubmitOrders(st,
                          IF d.high = "A" THEN AssetA(q, c) ELSE AssetB(q, c),
                          IF d.high = "A" THEN AssetB(q, c) ELSE AssetA(q, c),
                          TotalPosition(q, c, csh), ThreshHold, cyc)
    ELSE [ orders |-> st.orders, pending |-> st.pending, sold_something |-> FALSE,
           kind |-> "none", qty_to_sell_l |-> 0, qty_to_buy_h |-> 0 ]

\* the cycles of the decisions of one bar, one after the other
RunDecisions(ds, st, q, c, csh, cyc) ==
    LET r1 == RunDecision(ds[1], st, q, c, csh, cyc + 1)
    IN  IF Len(ds) = 1 THEN r1
        ELSE LET r2 == RunDecision(ds[2], [orders |-> r1.orders, pending |-> r1.pending],
                                   q, c, csh, cyc + (IF ds[1].runs THEN 2 ELSE 1))
             IN  [r2 EXCEPT !.sold_something = r1.sold_something \/ r2.sold_something]

\* the number of decisions that run a cycle
Runs(ds) == Cardinality({ k \in 1..Len(ds) : ds[k].runs })

\* ------------------------------------------------------------------------
\* The strategy: handlers
\* ------------------------------------------------------------------------
\* what a ratio-short bar met in _bos_allocation
ShortEval(ts, hist, d) ==
    LET pos == PreSwingPos(hist, ts)
        row == hist[Len(hist)]
    IN  [ swing_ts  |-> IF pos = 0 THEN 0 ELSE hist[pos].ts,
          low_cond  |-> pos # 0 /\ NotNa(row.c["ratio_s"].l)
                        /\ BosLowCond(row, hist[pos].swing_l_low),
          high_cond |-> pos # 0 /\ NotNa(row.c["ratio_s"].h)
                        /\ BosHighCond(row, hist[pos].swing_l_high),
          ran       |-> IF d.path = "bos" THEN d.dir ELSE "none" ]

\* Actor.handle_bar: the indicators registered for the bar's type are
\* updated (on_start, register_indicator_for_bars), then on_bar runs.
OnBar(stream, bar, ts) ==
    /\ swing_levels_l' =
          IF stream = "ratio_l"
          THEN HandleBar(swing_levels_l,
                         [high |-> bar.h, low |-> bar.l, n |-> swing_calls + 1],
                         swing_size_l, swing_size_r)
          ELSE swing_levels_l
    /\ swing_calls' = IF stream = "ratio_l" THEN swing_calls + 1 ELSE swing_calls
    /\ cache' = [cache EXCEPT ![stream] = bar]
    /\ df_history' = Upsert(df_history, cache', swing_levels_l', ts)
    /\ \E ds \in { Decide(stream, ts, df_history', cache', qty, last_acted_breakout) } :
       \E d \in { Decisive(ds) } :
       \E res \in { RunDecisions(ds, [orders |-> orders, pending |-> pending_buy_instruction],
                                  qty, cache', cash, cycles) } :
        /\ cycles + Runs(ds) <= MaxCycles
        /\ orders' = res.orders
        /\ fresh' = (Len(orders) + 1)..Len(res.orders)
        /\ pending_buy_instruction' = res.pending
        /\ cycles' = cycles + Runs(ds)
        /\ last_acted_breakout' =
              IF ds[1].path = "bos" THEN <<ds[1].swing_ts, ds[1].dir>>
              ELSE last_acted_breakout
        /\ last_event' =
              [ type |-> "bar", stream |-> stream, ts |-> ts, d |-> d,
                sold |-> res.sold_something,
                slot |-> pending_buy_instruction,
                in_place |-> RowsAt(df_history, ts) # {},
                l_index_before |-> IF RowsAt(df_history, ts) = {} THEN None
                                   ELSE df_history[SetMax(RowsAt(df_history, ts))].l_index,
                pre_swing_l_ts |->
                    IF d.path = "no_price" \/ PreSwingPos(df_history', ts) = 0 THEN 0
                    ELSE df_history'[PreSwingPos(df_history', ts)].ts ]
        /\ short_log' = IF stream = "ratio_s"
                        THEN DequeAppend(short_log, ShortEval(ts, df_history', ds[1]), 2)
                        ELSE short_log
        /\ bos_cycles' =
              IF ds[1].path = "bos"
              THEN Append(bos_cycles,
                          [ swing_ts |-> ds[1].swing_ts, dir |-> ds[1].dir,
                            level |-> ds[1].level,
                            pivots |-> Len(swing_levels_l'.pivot_high_history)
                                       + Len(swing_levels_l'.pivot_low_history) ])
              ELSE bos_cycles
        /\ current_allocation_type' =
              IF d.runs THEN (IF d.path = "bos" THEN "BOS" ELSE "Normal")
              ELSE current_allocation_type
    /\ seen_ts' = seen_ts \cup {ts}
    /\ confirmed_at' =
          IF stream = "ratio_l" /\ (NotNa(swing_levels_l'.pivot_high)
                                    \/ NotNa(swing_levels_l'.pivot_low))
          THEN confirmed_at \cup {ts}
          ELSE confirmed_at
    /\ UNCHANGED <<swing_size_l, swing_size_r, qty, cash, daily_fills_log>>

\* round(num / den, 2) in hundredths, den > 0: to nearest, ties to even
Round2(num, den) ==
    LET n == 100 * num
        q == n \div den
        r == n % den
    IN  IF 2 * r < den THEN q
        ELSE IF 2 * r > den THEN q + 1
        ELSE IF q % 2 = 0 THEN q ELSE q + 1

\* NewDailyRecord without the total of the record before it
NewDailyRecordNoPrev(log, date, alloc) ==
    [ date |-> date, allocation_type |-> alloc,
      order_side_a |-> "None", fill_qty_a |-> 0, fill_price_a |-> 0, fill_value_a |-> 0,
      order_side_b |-> "None", fill_qty_b |-> 0, fill_price_b |-> 0, fill_value_b |-> 0,
      position_a |-> 0, position_b |-> 0, available_cash |-> 0, total_position |-> 0,
      pos_change |-> 0, prev_total_p |-> 0 ]

\* record_fill, step 2: the record a day starts with
NewDailyRecord(log, date, alloc) ==
    [ date |-> date, allocation_type |-> alloc,
      order_side_a |-> "None", fill_qty_a |-> 0, fill_price_a |-> 0, fill_value_a |-> 0,
      order_side_b |-> "None", fill_qty_b |-> 0, fill_price_b |-> 0, fill_value_b |-> 0,
      position_a |-> 0, position_b |-> 0, available_cash |-> 0, total_position |-> 0,
      pos_change |-> 0,
      prev_total_p |-> IF log = <<>> THEN 0 ELSE log[Len(log)].total_position ]

\* record_fill, lines 550-551: the calendar date of a timestamp; TsPerDay
\* timestamps of the feed fall on one date
DateKey(ts) == (ts + TsPerDay - 1) \div TsPerDay

\* record_fill, line 566: reading current_allocation_type, which __init__
\* does not set, raises AttributeError when the day's record is to be made
RecordFillRaises(log, date, alloc) ==
    /\ alloc = "unset"
    /\ ~ \E i \in 1..Len(log) : log[i].date = date

\* DailyLogWith making a new record for every fill
DailyLogWithAppended(log, date, alloc) ==
    Append(log, NewDailyRecord(log, date, alloc))

\* record_fill, step 2 (lines 556-586): the log with a record for the date
DailyLogWith(log, date, alloc) ==
    IF \E i \in 1..Len(log) : log[i].date = date
    THEN log
    ELSE Append(log, NewDailyRecord(log, date, alloc))

\* record_fill: fill_price_* and pos_change are kept in hundredths
RecordFill(log, date, alloc, inst, side, fill_qty, fill_px, q, c, csh) ==
    LET log1 == DailyLogWith(log, date, alloc)
        k    == CHOOSE i \in 1..Len(log1) : log1[i].date = date
        rec  == log1[k]
        s    == IF side = "BUY" THEN "B" ELSE "S"
        fill_val == fill_qty * fill_px
        rec1 == IF inst = "A"
                THEN [rec EXCEPT !.order_side_a = s,
                                 !.fill_qty_a = @ + fill_qty,
                                 !.fill_value_a = @ + fill_val,
                                 !.fill_price_a =
                                     IF rec.fill_qty_a + fill_qty > 0
                                     THEN Round2(rec.fill_value_a + fill_val,
                                                 rec.fill_qty_a + fill_qty)
                                     ELSE @]
                ELSE [rec EXCEPT !.order_side_b = s,
                                 !.fill_qty_b = @ + fill_qty,
                                 !.fill_value_b = @ + fill_val,
                                 !.fill_price_b =
                                     IF rec.fill_qty_b + fill_qty > 0
                                     THEN Round2(rec.fill_value_b + fill_val,
                                                 rec.fill_qty_b + fill_qty)
                                     ELSE @]
        px_a == IF NotNa(c["a_s"].c) THEN c["a_s"].c ELSE 0
        px_b == IF NotNa(c["b_s"].c) THEN c["b_s"].c ELSE 0
        total_p == csh + q["A"] * px_a + q["B"] * px_b
        prev_p  == rec.prev_total_p
    IN  [log1 EXCEPT ![k] =
            [rec1 EXCEPT !.position_a = q["A"],
                         !.position_b = q["B"],
                         !.available_cash = csh,
                         !.total_position = total_p,
                         !.pos_change = IF prev_p # 0
                                        THEN Round2((total_p - prev_p) * 100, prev_p)
                                        ELSE 0]]

\* ReleasedOrders releasing the deferred BUY on a fill of either side
ReleasedOrdersAnySide(ords, slot, side) ==
    IF slot # <<>>
    THEN Append(ords, LimitOrder(slot[1].instrument_id, "BUY", slot[1].quantity,
                                 slot[1].price, FALSE, slot[1].cycle, "fill"))
    ELSE ords

\* on_order_filled, step 2: the deferred BUY is released by any SELL fill
ReleasedOrders(ords, slot, side) ==
    IF slot # <<>> /\ side = "SELL"
    THEN Append(ords, LimitOrder(slot[1].instrument_id, "BUY", slot[1].quantity,
                                 slot[1].price, FALSE, slot[1].cycle, "fill"))
    ELSE ords

\* SlotAfterFill without the assignment of line 684
SlotAfterFillKept(slot, side) == slot

\* on_order_filled, line 684
SlotAfterFill(slot, side) ==
    IF slot # <<>> /\ side = "SELL" THEN <<>> ELSE slot

\* the notional of an order at its limit price
Notional(o) == (o.quantity * o.price) \div PriceScale

\* The venue fills open order i in full at its limit price (a SELL needs
\* the position, a BUY the cash), then on_order_filled runs: record_fill
\* first, then the release of the deferred BUY.  An exception raised in
\* record_fill ends the handler there.
OnOrderFilled(i) ==
    LET o == orders[i]
        marked == [orders EXCEPT ![i].status = "filled"]
        raised == RecordFillRaises(daily_fills_log, DateKey(now), current_allocation_type)
    IN  /\ o.status = "open"
        /\ IF o.side = "SELL" THEN qty[o.instrument_id] >= o.quantity
                              ELSE cash >= Notional(o)
        /\ qty' = [qty EXCEPT ![o.instrument_id] =
                      IF o.side = "SELL" THEN @ - o.quantity ELSE @ + o.quantity]
        /\ cash' = IF o.side = "SELL" THEN cash + Notional(o) ELSE cash - Notional(o)
        /\ daily_fills_log' =
              IF raised THEN daily_fills_log
              ELSE RecordFill(daily_fills_log, DateKey(now), current_allocation_type,
                              o.instrument_id, o.side, o.quantity,
                              o.price \div PriceScale, qty', cache, cash')
        /\ orders' = IF raised THEN marked
                     ELSE ReleasedOrders(marked, pending_buy_instruction, o.side)
        /\ fresh' = (Len(orders) + 1)..Len(orders')
        /\ pending_buy_instruction' =
              IF raised THEN pending_buy_instruction
              ELSE SlotAfterFill(pending_buy_instruction, o.side)
        /\ last_event' = [ type |-> "fill", order |-> i, side |-> o.side,
                           slot |-> pending_buy_instruction, raised |-> raised,
                           date |-> DateKey(now) ]
        /\ UNCHANGED <<swing_size_l, swing_size_r, swing_levels_l, swing_calls, cache,
                       df_history, last_acted_breakout, now, delivered, bars_seen, cycles,
                       short_log, bos_cycles, current_allocation_type, seen_ts,
                       confirmed_at>>

\* number of orders rejected or denied so far
Refused(ords) == Cardinality({ i \in 1..Len(ords) : ords[i].status \in {"rejected", "denied"} })

\* OnOrderRejected dropping the pending buy
OnOrderRejectedClears(i) ==
    /\ orders[i].status = "open"
    /\ i \in fresh
    /\ Refused(orders) < MaxRefused
    /\ orders' = [orders EXCEPT ![i].status = "rejected"]
    /\ fresh' = fresh \ {i}
    /\ last_event' = [type |-> "rejected", order |-> i]
    /\ pending_buy_instruction' = <<>>
    /\ UNCHANGED <<swing_size_l, swing_size_r, swing_levels_l, swing_calls, cache,
                   df_history, last_acted_breakout, qty, cash,
                   now, delivered, bars_seen, cycles, short_log, bos_cycles,
                   current_allocation_type, daily_fills_log, seen_ts, confirmed_at>>

\* The venue rejects open order i, as its answer to the submission;
\* on_order_rejected only logs.
OnOrderRejected(i) ==
    /\ orders[i].status = "open"
    /\ i \in fresh
    /\ Refused(orders) < MaxRefused
    /\ orders' = [orders EXCEPT ![i].status = "rejected"]
    /\ fresh' = fresh \ {i}
    /\ last_event' = [type |-> "rejected", order |-> i]
    /\ UNCHANGED <<swing_size_l, swing_size_r, swing_levels_l, swing_calls, cache,
                   df_history, pending_buy_instruction, last_acted_breakout, qty, cash,
                   now, delivered, bars_seen, cycles, short_log, bos_cycles,
                   current_allocation_type, daily_fills_log, seen_ts, confirmed_at>>

\* The risk engine denies open order i, as its answer to the submission;
\* on_order_denied only logs.
OnOrderDenied(i) ==
    /\ orders[i].status = "open"
    /\ i \in fresh
    /\ Refused(orders) < MaxRefused
    /\ orders' = [orders EXCEPT ![i].status = "denied"]
    /\ fresh' = fresh \ {i}
    /\ last_event' = [type |-> "denied", order |-> i]
    /\ UNCHANGED <<swing_size_l, swing_size_r, swing_levels_l, swing_calls, cache,
                   df_history, pending_buy_instruction, last_acted_breakout, qty, cash,
                   now, delivered, bars_seen, cycles, short_log, bos_cycles,
                   current_allocation_type, daily_fills_log, seen_ts, confirmed_at>>

\* ------------------------------------------------------------------------
\* The strategy under a feed that delivers bars in timestamp order, at most
\* one bar per stream and timestamp
\* ------------------------------------------------------------------------
Flat(p) == [o |-> p, h |-> p, l |-> p, c |-> p]
UpBar(lo, hi) == [o |-> lo, h |-> hi, l |-> lo, c |-> hi]

\* the bars each stream may deliver
BarInputs(stream) ==
    CASE stream = "a_s"     -> { Flat(1) }
      [] stream = "b_s"     -> { Flat(3) }
      [] stream = "a_l"     -> { Flat(1) }
      [] stream = "b_l"     -> { Flat(1) }
      [] stream = "ratio_l" -> { UpBar(3, 4), UpBar(2, 5) }
      [] stream = "ratio_s" -> { UpBar(2, 5), UpBar(1, 5), UpBar(2, 6), UpBar(1, 6) }

Init ==
    /\ swing_size_l = StratSwingL
    /\ swing_size_r = StratSwingR
    /\ swing_levels_l = SwingInit
    /\ swing_calls = 0
    /\ cache = [s \in Streams |-> NoBar]
    /\ df_history = <<>>
    /\ pending_buy_instruction = <<>>
    /\ last_acted_breakout = <<>>
    /\ orders = <<>>
    /\ fresh = {}
    /\ qty = [i \in Instruments |-> 0]
    /\ cash = InitialCash
    /\ now = 0
    /\ delivered = {}
    /\ bars_seen = [s \in Streams |-> 0]
    /\ cycles = 0
    /\ last_event = NoEvent
    /\ short_log = <<>>
    /\ bos_cycles = <<>>
    /\ current_allocation_type = "unset"
    /\ daily_fills_log = <<>>
    /\ seen_ts = {}
    /\ confirmed_at = {}

\* run_backtest hands the engine the bars as bars_gld_daily + bars_vti_daily
\* + bars_gld_weekly + bars_vti_weekly + bars_vti_gld_daily +
\* bars_vti_gld_weekly, and the engine delivers them by timestamp: bars of
\* one timestamp arrive in this order
FeedOrder == <<"b_s", "a_s", "b_l", "a_l", "ratio_s", "ratio_l">>

FeedPos(stream) == CHOOSE i \in 1..Len(FeedOrder) : FeedOrder[i] = stream

\* how many bars a stream delivers in a run
MaxBarsOf(stream) ==
    CASE stream \in {"a_s", "b_s"} -> MaxShortAssetBars
      [] stream \in {"a_l", "b_l"} -> MaxLongAssetBars
      [] stream = "ratio_l"        -> MaxLongBars
      [] stream = "ratio_s"        -> MaxShortBars

\* the feed of this specification: the asset streams deliver at the first
\* timestamp only, and the ratio-long stream has a bar at each timestamp
\* until it has delivered MaxLongBars bars
MayDeliver(stream, ts) ==
    /\ bars_seen[stream] < MaxBarsOf(stream)
    /\ stream \in {"a_s", "b_s", "a_l", "b_l"} => ts = 1
    /\ (ts > now /\ now >= 1 /\ bars_seen["ratio_l"] < MaxLongBars)
           => "ratio_l" \in delivered

\* the next bar of the feed carries the current timestamp or the next one
BarArrives ==
    \E stream \in Streams : \E ts \in {now, now + 1} :
        /\ ts >= 1 /\ ts <= MaxTs
        /\ ts = now => \A s \in delivered : FeedPos(s) < FeedPos(stream)
        /\ MayDeliver(stream, ts)
        /\ \E bar \in BarInputs(stream) : OnBar(stream, bar, ts)
        /\ bars_seen' = [bars_seen EXCEPT ![stream] = @ + 1]
        /\ delivered' = IF ts = now THEN delivered \cup {stream} ELSE {stream}
        /\ now' = ts

OrderFills == \E i \in 1..Len(orders) : OnOrderFilled(i)

OrderRejected == \E i \in 1..Len(orders) : OnOrderRejected(i)

OrderDenied == \E i \in 1..Len(orders) : OnOrderDenied(i)

Next == BarArrives \/ OrderFills \/ OrderRejected \/ OrderDenied

Spec == Init /\ [][Next]_vars

\* ------------------------------------------------------------------------
\* The sizing cycle on its own: any portfolio, prices and slot, and the
\* cycle run as on_bar runs it
\* ------------------------------------------------------------------------
CycleQtys == {0, 3, 2000}
CyclePrices == {1, 50, 100}
CycleCash == {0, 7, 100000}

\* ratio_threshold in units of 1 / ThreshDen
CycleThresholds == {2, 95}

\* a ledger of one row that carries a confirmed pivot-low, and the dedupe
\* marker of a breakout of that pivot
SwingRow(c) == [ ts |-> 1, l_index |-> 0, c |-> c,
                 swing_l_low |-> 2, swing_l_high |-> None ]
ActedOnSwingRow == <<1, "low">>

\* a buy deferred by an earlier cycle (cycle 0)
EarlierSlot == << [instrument_id |-> "B", quantity |-> 1, price |-> FormatPrice(1),
                   cycle |-> 0] >>

InitCycle ==
    /\ swing_size_l = StratSwingL
    /\ swing_size_r = StratSwingR
    /\ swing_levels_l = SwingInit
    /\ swing_calls = 0
    /\ \E pa \in CyclePrices, pb \in CyclePrices :
          cache = [s \in Streams |-> IF s = "a_s" THEN Flat(pa)
                                     ELSE IF s = "b_s" THEN Flat(pb) ELSE NoBar]
    /\ df_history \in { <<>>, << SwingRow(cache) >> }
    /\ pending_buy_instruction \in { <<>>, EarlierSlot }
    /\ last_acted_breakout \in { <<>> } \cup (IF df_history = <<>> THEN {}
                                               ELSE { ActedOnSwingRow })
    /\ orders = <<>>
    /\ fresh = {}
    /\ qty \in [Instruments -> CycleQtys]
    /\ cash \in CycleCash
    /\ now = 0
    /\ delivered = {}
    /\ bars_seen = [s \in Streams |-> 0]
    /\ cycles = 0
    /\ last_event = NoEvent
    /\ short_log = <<>>
    /\ bos_cycles = <<>>
    /\ current_allocation_type = "unset"
    /\ daily_fills_log = <<>>
    /\ seen_ts = {}
    /\ confirmed_at = {}

\* one call of _calc_submit_orders with asset_h = high, the other
\* instrument as asset_l and total_position as on_bar computes it
SizingCycle ==
    /\ cycles < MaxSizingRuns
    /\ \E allocation_type \in {"Normal", "BOS"} :
          current_allocation_type' = allocation_type
    /\ \E high \in Instruments : \E ratio_threshold \in CycleThresholds :
       \E res \in { CalcSubmitOrders(
                       [orders |-> orders, pending |-> pending_buy_instruction],
                       IF high = "A" THEN AssetA(qty, cache) ELSE AssetB(qty, cache),
                       IF high = "A" THEN AssetB(qty, cache) ELSE AssetA(qty, cache),
                       TotalPosition(qty, cache, cash), ratio_threshold, cycles + 1) } :
          /\ orders' = res.orders
          /\ fresh' = (Len(orders) + 1)..Len(res.orders)
          /\ pending_buy_instruction' = res.pending
          /\ last_event' = [ type |-> "cycle", high |-> high,
                             sold |-> res.sold_something,
                             ratio_threshold |-> ratio_threshold, kind |-> res.kind,
                             qty_to_sell_l |-> res.qty_to_sell_l,
                             qty_to_buy_h |-> res.qty_to_buy_h,
                             slot |-> pending_buy_instruction,
                             prev |-> IF last_event.type = "cycle"
                                      THEN << [ high |-> last_event.high,
                                                ratio_threshold |-> last_event.ratio_threshold,
                                                kind |-> last_event.kind,
                                                qty_to_sell_l |-> last_event.qty_to_sell_l,
                                                qty_to_buy_h |-> last_event.qty_to_buy_h ] >>
                                      ELSE << >> ]
    /\ cycles' = cycles + 1
    /\ UNCHANGED <<swing_size_l, swing_size_r, swing_levels_l, swing_calls, cache,
                   df_history, last_acted_breakout, qty, cash, now, delivered,
                   bars_seen, short_log, bos_cycles, daily_fills_log, seen_ts,
                   confirmed_at>>

NextCycle == SizingCycle

SpecCycle == InitCycle /\ [][NextCycle]_vars

\* ------------------------------------------------------------------------
\* The detector on its own: any L, R >= 1, any bars
\* ------------------------------------------------------------------------
SwingBarInputs ==
    { b \in [high : 1..MaxVal, low : 1..MaxVal, n : {0}] : b.low <= b.high }

InitSwing ==
    /\ swing_size_l \in 1..MaxSwing
    /\ swing_size_r \in 1..MaxSwing
    /\ swing_levels_l = SwingInit
    /\ swing_calls = 0
    /\ cache = [s \in Streams |-> NoBar]
    /\ df_history = <<>>
    /\ pending_buy_instruction = <<>>
    /\ last_acted_breakout = <<>>
    /\ orders = <<>>
    /\ fresh = {}
    /\ qty = [i \in Instruments |-> 0]
    /\ cash = 0
    /\ now = 0
    /\ delivered = {}
    /\ bars_seen = [s \in Streams |-> 0]
    /\ cycles = 0
    /\ last_event = NoEvent
    /\ short_log = <<>>
    /\ bos_cycles = <<>>
    /\ current_allocation_type = "unset"
    /\ daily_fills_log = <<>>
    /\ seen_ts = {}
    /\ confirmed_at = {}

\* One call of handle_bar with an arbitrary bar; n numbers the bar objects.
SwingHandleBar ==
    /\ swing_calls < MaxSwingBars
    /\ \E b \in SwingBarInputs :
          swing_levels_l' = HandleBar(swing_levels_l, [b EXCEPT !.n = swing_calls + 1],
                                      swing_size_l, swing_size_r)
    /\ swing_calls' = swing_calls + 1
    /\ UNCHANGED <<swing_size_l, swing_size_r>>
    /\ UNCHANGED strat_vars

NextSwing == SwingHandleBar

SpecSwing == InitSwing /\ [][NextSwing]_vars

\* ------------------------------------------------------------------------
\* The ledger under any feed: on_bar called with bars of any stream and
\* timestamp, a timestamp or a stream repeated or not
\* ------------------------------------------------------------------------
LedgerInputs(stream) ==
    CASE stream = "a_s"     -> { Flat(1) }
      [] stream = "b_s"     -> { Flat(3) }
      [] stream = "a_l"     -> { Flat(1), Flat(2) }
      [] stream = "b_l"     -> { Flat(1) }
      [] stream = "ratio_l" -> { UpBar(3, 4) }
      [] stream = "ratio_s" -> { UpBar(1, 5) }

BarsDelivered == bars_seen["a_s"] + bars_seen["b_s"] + bars_seen["ratio_s"]
               + bars_seen["a_l"] + bars_seen["b_l"] + bars_seen["ratio_l"]

\* one bar of the stream with timestamp ts is handled
LedgerDeliver(stream, ts) ==
    /\ \E bar \in LedgerInputs(stream) : OnBar(stream, bar, ts)
    /\ bars_seen' = [bars_seen EXCEPT ![stream] = @ + 1]
    /\ delivered' = IF ts = now THEN delivered \cup {stream} ELSE {stream}
    /\ now' = ts

\* bars in any order of timestamps
LedgerBar ==
    \E stream \in Streams : \E ts \in 1..MaxLedgerTs :
        /\ BarsDelivered < MaxLedgerBars
        /\ LedgerDeliver(stream, ts)

NextLedger == LedgerBar

SpecLedger == Init /\ [][NextLedger]_vars

\* bars in non-decreasing order of timestamps
OrderedBar ==
    \E stream \in Streams : \E ts \in 1..MaxLedgerTs :
        /\ BarsDelivered < MaxOrderedBars
        /\ ts >= now
        /\ LedgerDeliver(stream, ts)

NextOrdered == OrderedBar

SpecOrdered == Init /\ [][NextOrdered]_vars

\* ------------------------------------------------------------------------
\* The strategy started on an account that holds nothing or already holds
\* asset A, under a feed in which asset bars may come at any timestamp
\* ------------------------------------------------------------------------
HeldInputs(stream) ==
    CASE stream = "a_s"     -> { Flat(1) }
      [] stream = "b_s"     -> { Flat(3) }
      [] stream = "a_l"     -> { Flat(1) }
      [] stream = "b_l"     -> { Flat(1) }
      [] stream = "ratio_l" -> { UpBar(3, 6), UpBar(2, 5) }
      [] stream = "ratio_s" -> { UpBar(1, 5), UpBar(3, 7) }

\* get_quote_qty reads the portfolio, which the strategy does not reset
InitHeld ==
    /\ swing_size_l = StratSwingL
    /\ swing_size_r = StratSwingR
    /\ swing_levels_l = SwingInit
    /\ swing_calls = 0
    /\ cache = [s \in Streams |-> NoBar]
    /\ df_history = <<>>
    /\ pending_buy_instruction = <<>>
    /\ last_acted_breakout = <<>>
    /\ orders = <<>>
    /\ fresh = {}
    /\ \E held \in {0, HeldQty} :
          qty = [i \in Instruments |-> IF i = "A" THEN held ELSE 0]
    /\ cash = InitialCash
    /\ now = 0
    /\ delivered = {}
    /\ bars_seen = [s \in Streams |-> 0]
    /\ cycles = 0
    /\ last_event = NoEvent
    /\ short_log = <<>>
    /\ bos_cycles = <<>>
    /\ current_allocation_type = "unset"
    /\ daily_fills_log = <<>>
    /\ seen_ts = {}
    /\ confirmed_at = {}

\* the asset bars delivered so far, but for the first bar of each short
\* asset stream
LaterAssetBars ==
    (IF bars_seen["a_s"] > 1 THEN bars_seen["a_s"] - 1 ELSE 0)
  + (IF bars_seen["b_s"] > 1 THEN bars_seen["b_s"] - 1 ELSE 0)
  + bars_seen["a_l"] + bars_seen["b_l"]

\* the feed of this specification: a short asset stream delivers its first
\* bar at the first timestamp; MaxHeldAssetBars more asset bars come at any
\* timestamp; the ratio-long stream has a bar at each timestamp until it
\* has delivered MaxHeldLongBars bars
MayDeliverHeld(stream, ts) ==
    /\ stream = "ratio_l" => bars_seen[stream] < MaxHeldLongBars
    /\ stream = "ratio_s" => bars_seen[stream] < MaxHeldShortBars
    /\ (stream \in {"a_s", "b_s"} /\ bars_seen[stream] = 0) => ts = 1
    /\ (stream \in {"a_l", "b_l"} \/ (stream \in {"a_s", "b_s"} /\ bars_seen[stream] > 0))
           => LaterAssetBars < MaxHeldAssetBars
    /\ (ts > now /\ now >= 1 /\ bars_seen["ratio_l"] < MaxHeldLongBars)
           => "ratio_l" \in delivered

\* the next bar of the feed carries the current timestamp or the next one
HeldBarArrives ==
    \E stream \in Streams : \E ts \in {now, now + 1} :
        /\ ts >= 1 /\ ts <= MaxHeldTs
        /\ ts = now => \A s \in delivered : FeedPos(s) < FeedPos(stream)
        /\ MayDeliverHeld(stream, ts)
        /\ \E bar \in HeldInputs(stream) : OnBar(stream, bar, ts)
        /\ bars_seen' = [bars_seen EXCEPT ![stream] = @ + 1]
        /\ delivered' = IF ts = now THEN delivered \cup {stream} ELSE {stream}
        /\ now' = ts

NextHeld == HeldBarArrives \/ OrderFills \/ OrderRejected \/ OrderDenied

SpecHeld == InitHeld /\ [][NextHeld]_vars

\* ------------------------------------------------------------------------
\* The fill log: a run in which the close of asset A moves between fills
\* ------------------------------------------------------------------------
DailyInputs(stream) ==
    CASE stream = "a_s"     -> { Flat(1), Flat(2) }
      [] stream = "b_s"     -> { Flat(3) }
      [] stream = "a_l"     -> { Flat(1) }
      [] stream = "b_l"     -> { Flat(1) }
      [] stream = "ratio_l" -> { UpBar(3, 6), UpBar(2, 5) }
      [] stream = "ratio_s" -> { UpBar(1, 5) }

\* the feed of this specification: the short asset streams deliver their
\* first bar at the first timestamp, asset A delivers MaxDailyAssetBars more
\* bars at any timestamp, and the ratio-long stream has a bar at each
\* timestamp until it has delivered MaxDailyLongBars bars
MayDeliverDaily(stream, ts) ==
    /\ stream \in {"a_s", "b_s", "ratio_l"}
    /\ stream = "ratio_l" => bars_seen[stream] < MaxDailyLongBars
    /\ stream = "b_s" => bars_seen[stream] = 0
    /\ stream = "a_s" => bars_seen[stream] < 1 + MaxDailyAssetBars
    /\ (stream \in {"a_s", "b_s"} /\ bars_seen[stream] = 0) => ts = 1
    /\ (ts > now /\ now >= 1 /\ bars_seen["ratio_l"] < MaxDailyLongBars)
           => "ratio_l" \in delivered

\* the next bar of the feed carries the current timestamp or the next one
DailyBarArrives ==
    \E stream \in Streams : \E ts \in {now, now + 1} :
        /\ ts >= 1 /\ ts <= MaxDailyTs
        /\ ts = now => \A s \in delivered : FeedPos(s) < FeedPos(stream)
        /\ MayDeliverDaily(stream, ts)
        /\ \E bar \in DailyInputs(stream) : OnBar(stream, bar, ts)
        /\ bars_seen' = [bars_seen EXCEPT ![stream] = @ + 1]
        /\ delivered' = IF ts = now THEN delivered \cup {stream} ELSE {stream}
        /\ now' = ts

NextDaily == DailyBarArrives \/ OrderFills

SpecDaily == Init /\ [][NextDaily]_vars

\* ------------------------------------------------------------------------
\* Pivots confirmed in pairs: ratio-long bars whose candidate is the highest
\* high and the lowest low of its window, on an account that holds nothing
\* or already holds asset A
\* ------------------------------------------------------------------------
TieInputs(stream) ==
    CASE stream = "a_s"     -> { Flat(1) }
      [] stream = "b_s"     -> { Flat(3) }
      [] stream = "a_l"     -> { Flat(1) }
      [] stream = "b_l"     -> { Flat(1) }
      [] stream = "ratio_l" -> { UpBar(3, 4), UpBar(2, 5) }
      [] stream = "ratio_s" -> { UpBar(2, 5) }

\* the feed of this specification: the short asset streams deliver one bar,
\* at the first timestamp, and the ratio-long stream has a bar at each
\* timestamp until it has delivered MaxTieLongBars bars
MayDeliverTie(stream, ts) ==
    /\ stream \in {"a_s", "b_s", "ratio_l"}
    /\ stream = "ratio_l" => bars_seen[stream] < MaxTieLongBars
    /\ stream \in {"a_s", "b_s"} => (bars_seen[stream] = 0 /\ ts = 1)
    /\ (ts > now /\ now >= 1 /\ bars_seen["ratio_l"] < MaxTieLongBars)
           => "ratio_l" \in delivered

\* the next bar of the feed carries the current timestamp or the next one
TieBarArrives ==
    \E stream \in Streams : \E ts \in {now, now + 1} :
        /\ ts >= 1 /\ ts <= MaxTieTs
        /\ ts = now => \A s \in delivered : FeedPos(s) < FeedPos(stream)
        /\ MayDeliverTie(stream, ts)
        /\ \E bar \in TieInputs(stream) : OnBar(stream, bar, ts)
        /\ bars_seen' = [bars_seen EXCEPT ![stream] = @ + 1]
        /\ delivered' = IF ts = now THEN delivered \cup {stream} ELSE {stream}
        /\ now' = ts

NextTie == TieBarArrives \/ OrderFills

SpecTie == InitHeld /\ [][NextTie]_vars

\* ------------------------------------------------------------------------
\* Breakouts against single and paired pivots: ratio-long bars that confirm a
\* pivot-low, a pivot-high or both, and ratio-short bars that go below and
\* above every pivot
\* ------------------------------------------------------------------------
BosInputs(stream) ==
    CASE stream = "a_s"     -> { Flat(1) }
      [] stream = "b_s"     -> { Flat(3) }
      [] stream = "a_l"     -> { Flat(1) }
      [] stream = "b_l"     -> { Flat(1) }
      [] stream = "ratio_l" -> { UpBar(3, 4), UpBar(2, 5), UpBar(3, 6) }
      [] stream = "ratio_s" -> { UpBar(1, 7) }

\* the feed of this specification: the short asset streams deliver one bar,
\* at the first timestamp; the ratio-long stream has a bar at each timestamp
\* until it has delivered MaxBosLongBars bars; the ratio-short stream
\* delivers MaxBosShortBars bars
MayDeliverBos(stream, ts) ==
    /\ stream \in {"a_s", "b_s", "ratio_l", "ratio_s"}
    /\ stream = "ratio_l" => bars_seen[stream] < MaxBosLongBars
    /\ stream = "ratio_s" => bars_seen[stream] < MaxBosShortBars
    /\ stream \in {"a_s", "b_s"} => (bars_seen[stream] = 0 /\ ts = 1)
    /\ (ts > now /\ now >= 1 /\ bars_seen["ratio_l"] < MaxBosLongBars)
           => "ratio_l" \in delivered

\* the next bar of the feed carries the current timestamp or the next one
BosBarArrives ==
    \E stream \in Streams : \E ts \in {now, now + 1} :
        /\ ts >= 1 /\ ts <= MaxBosTs
        /\ ts = now => \A s \in delivered : FeedPos(s) < FeedPos(stream)
        /\ MayDeliverBos(stream, ts)
        /\ \E bar \in BosInputs(stream) : OnBar(stream, bar, ts)
        /\ bars_seen' = [bars_seen EXCEPT ![stream] = @ + 1]
        /\ delivered' = IF ts = now THEN delivered \cup {stream} ELSE {stream}
        /\ now' = ts

NextBos == BosBarArrives \/ OrderFills

SpecBos == Init /\ [][NextBos]_vars

\* ------------------------------------------------------------------------
\* Properties: the order sequencer
\* ------------------------------------------------------------------------
\* the orders a step submitted
NewOrders == SubSeq(orders', Len(orders) + 1, Len(orders'))

SellsOf(c) == { j \in 1..Len(orders) : orders[j].cycle = c /\ orders[j].side = "SELL" }

\* C1: sell-before-buy.  Whenever a sizing cycle has both a SELL leg and a
\* BUY leg, its BUY order is submitted only after a fill of one of that same
\* cycle's SELL orders: every submitted BUY of a cycle that has SELL orders
\* finds one of those SELL orders filled.
C1_SellBeforeBuy ==
    \A i \in 1..Len(orders) :
        (orders[i].side = "BUY" /\ SellsOf(orders[i].cycle) # {})
            => \E j \in SellsOf(orders[i].cycle) : orders[j].status = "filled"

\* a step in which the venue fills order i
FillStep(i) == orders[i].status = "open" /\ orders'[i].status = "filled"

\* C2: when a SELL fill is handled while a buy is pending, the handler
\* submits exactly one BUY limit GTC order with the stored instrument,
\* quantity and price, and empties the slot; and the stored instruction is
\* what the deferring cycle wrote: only a sizing cycle changes a filled slot
\* to another instruction.
C2_ReleaseOnSellFill ==
    [][ /\ \A i \in 1..Len(orders) :
              (FillStep(i) /\ orders[i].side = "SELL" /\ pending_buy_instruction # <<>>)
                  => /\ Len(orders') = Len(orders) + 1
                     /\ orders'[Len(orders')].side = "BUY"
                     /\ orders'[Len(orders')].type = "LIMIT"
                     /\ orders'[Len(orders')].time_in_force = "GTC"
                     /\ orders'[Len(orders')].status = "open"
                     /\ orders'[Len(orders')].instrument_id
                            = pending_buy_instruction[1].instrument_id
                     /\ orders'[Len(orders')].quantity
                            = pending_buy_instruction[1].quantity
                     /\ orders'[Len(orders')].price = pending_buy_instruction[1].price
                     /\ pending_buy_instruction' = <<>>
        /\ (pending_buy_instruction # <<>>
            /\ pending_buy_instruction' # <<>>
            /\ pending_buy_instruction' # pending_buy_instruction)
               => cycles' = cycles + 1
      ]_vars

\* a SELL fill was just handled with a buy pending, and the buy was released
C2_Witness ==
    /\ last_event.type = "fill"
    /\ last_event.side = "SELL"
    /\ last_event.slot # <<>>
    /\ orders[Len(orders)].via = "fill"

\* the deltas of a cycle as the sizing rule states them, for asset_h = high
OtherInst(i) == IF i = "A" THEN "B" ELSE "A"
PriceOf(i) == IF i = "A" THEN cache["a_s"].c ELSE cache["b_s"].c
HeldValue == (IF qty["A"] > 0 THEN qty["A"] * PriceOf("A") ELSE 0)
           + (IF qty["B"] > 0 THEN qty["B"] * PriceOf("B") ELSE 0)
DeltaLow(high) ==
    qty[OtherInst(high)]
      - (((cash + HeldValue) * (RatioDen - RatioNum)) \div (RatioDen * PriceOf(OtherInst(high))))
DeltaHigh(high) ==
    (((cash + HeldValue) * RatioNum) \div (RatioDen * PriceOf(high))) - qty[high]

\* the BUY legs with positive quantity of a cycle with asset_h = high
BuyLegs(high) ==
    (IF DeltaLow(high) < 0
     THEN { [instrument_id |-> OtherInst(high), quantity |-> 0 - DeltaLow(high),
             price |-> PriceOf(OtherInst(high)) * PriceScale] }
     ELSE {})
    \cup
    (IF DeltaHigh(high) > 0
     THEN { [instrument_id |-> high, quantity |-> DeltaHigh(high),
             price |-> PriceOf(high) * PriceScale] }
     ELSE {})

\* a step that ran a sizing cycle of the sizing specification
CycleStep == cycles' = cycles + 1 /\ last_event'.type = "cycle"

\* C3: in a sizing cycle that submits at least one SELL order no BUY order
\* is submitted, and the BUY leg with positive quantity is what the pending
\* slot holds afterwards.
C3_SellDefersBuy ==
    [][ (CycleStep /\ \E k \in 1..Len(NewOrders) : NewOrders[k].side = "SELL")
          => /\ \A k \in 1..Len(NewOrders) : NewOrders[k].side # "BUY"
             /\ \A leg \in BuyLegs(last_event'.high) :
                   /\ pending_buy_instruction' # <<>>
                   /\ pending_buy_instruction'[1].instrument_id = leg.instrument_id
                   /\ pending_buy_instruction'[1].quantity = leg.quantity
                   /\ pending_buy_instruction'[1].price = leg.price
      ]_vars

\* the scenario: total_position = 100000 (cash 0), price_high = 100,
\* price_low = 50, qty_high = 0, qty_low = 2000: SELL 1800 of the low-weight
\* asset is submitted and BUY 900 of the high-weight asset is pending
C3_Witness ==
    /\ cycles = 1
    /\ last_event.type = "cycle" /\ last_event.high = "A"
    /\ cash = 0 /\ qty["A"] = 0 /\ qty["B"] = 2000
    /\ cache["a_s"].c = 100 /\ cache["b_s"].c = 50
    /\ Len(orders) = 1
    /\ orders[1].side = "SELL" /\ orders[1].instrument_id = "B"
    /\ orders[1].quantity = 1800
    /\ pending_buy_instruction # <<>>
    /\ pending_buy_instruction[1].instrument_id = "A"
    /\ pending_buy_instruction[1].quantity = 900
    /\ pending_buy_instruction[1].price = 100 * PriceScale

\* C4: in a sizing cycle that needs no SELL (delta_low <= 0 and
\* delta_high >= 0) every BUY leg with positive quantity is submitted in the
\* cycle, as an open BUY limit GTC order, nothing else is submitted, and the
\* pending slot is left as it was.
C4_NoSellBuysAtOnce ==
    [][ (CycleStep /\ DeltaLow(last_event'.high) <= 0 /\ DeltaHigh(last_event'.high) >= 0)
          => /\ \A leg \in BuyLegs(last_event'.high) :
                   \E k \in 1..Len(NewOrders) :
                       /\ NewOrders[k].side = "BUY"
                       /\ NewOrders[k].type = "LIMIT"
                       /\ NewOrders[k].time_in_force = "GTC"
                       /\ NewOrders[k].status = "open"
                       /\ NewOrders[k].instrument_id = leg.instrument_id
                       /\ NewOrders[k].quantity = leg.quantity
                       /\ NewOrders[k].price = leg.price
             /\ Len(NewOrders) = Cardinality(BuyLegs(last_event'.high))
             /\ pending_buy_instruction' = pending_buy_instruction
      ]_vars

\* a cycle without SELL just submitted its two BUY legs, the slot empty
\* before and after
C4_Witness ==
    /\ cycles = 1
    /\ last_event.type = "cycle" /\ ~last_event.sold
    /\ Len(orders) = 2
    /\ orders[1].side = "BUY" /\ orders[2].side = "BUY"
    /\ pending_buy_instruction = <<>>

\* ------------------------------------------------------------------------
\* Properties: the dedupe of structural breakouts
\* ------------------------------------------------------------------------
\* the last two ratio-short bars met the breakout condition of direction
\* dir against the same previous-swing timestamp
SameBreakoutTwice(dir) ==
    /\ Len(short_log) = 2
    /\ short_log[1].swing_ts # 0
    /\ short_log[1].swing_ts = short_log[2].swing_ts
    /\ IF dir = "low" THEN short_log[1].low_cond /\ short_log[2].low_cond
                      ELSE short_log[1].high_cond /\ short_log[2].high_cond

\* C5 as claimed: of two consecutive ratio-short bars that both satisfy the
\* same breakout condition against the same previous-swing timestamp, at
\* most one runs a cycle through the structural-breakout path.
C5_DedupConsecutive ==
    \A dir \in {"low", "high"} :
        SameBreakoutTwice(dir)
            => ~(short_log[1].ran # "none" /\ short_log[2].ran # "none")

\* C5 as amended: of two such bars at most one runs the structural-breakout
\* cycle of that direction (a bar that also satisfies the low breakout
\* condition may run the low-direction cycle instead).
C5_DedupConsecutiveDir ==
    \A dir \in {"low", "high"} :
        SameBreakoutTwice(dir)
            => ~(short_log[1].ran = dir /\ short_log[2].ran = dir)

\* two consecutive ratio-short bars broke the same swing low; the first
\* reacted, the second was suppressed
C5_Witness ==
    /\ SameBreakoutTwice("low")
    /\ short_log[1].ran = "low"
    /\ short_log[2].ran = "none"
    /\ last_event.type = "bar" /\ last_event.stream = "ratio_s"
    /\ last_event.d.path = "bos_dup"

\* C6: for a pair (previous swing timestamp, direction) the structural-
\* breakout path runs one sizing cycle only: no two cycles of that path
\* have the same previous-swing timestamp and direction.
C6_DedupWholeRun ==
    \A i \in 1..Len(bos_cycles) : \A j \in 1..Len(bos_cycles) :
        (i < j) => ~(/\ bos_cycles[i].swing_ts = bos_cycles[j].swing_ts
                     /\ bos_cycles[i].dir = bos_cycles[j].dir)

\* C7: once the structural-breakout path reacted to a breakout of a swing
\* level, it does not react again to the same breakout of that level while
\* no new long-timeframe pivot is confirmed: no two cycles of that path have
\* the same direction, level and number of confirmed pivots.
C7_DedupSwingLevel ==
    \A i \in 1..Len(bos_cycles) : \A j \in 1..Len(bos_cycles) :
        (i < j) => ~(/\ bos_cycles[i].dir = bos_cycles[j].dir
                     /\ bos_cycles[i].level = bos_cycles[j].level
                     /\ bos_cycles[i].pivots = bos_cycles[j].pivots)

\* ------------------------------------------------------------------------
\* Properties: the pivot detector
\* ------------------------------------------------------------------------
AllEqual(s) == \A i \in 1..Len(s) : s[i] = s[1]

WindowFull == Len(swing_levels_l.highs) = swing_size_l + swing_size_r + 1

\* the candidate's position in the full window
Cand == swing_size_l + 1

\* C8: flat-line invariant.  A handle_bar call whose full window has all
\* highs equal reports no pivot-high and appends nothing to the pivot-high
\* history; likewise for lows and the pivot-low history.
C8_FlatLine ==
    [][ (swing_calls' = swing_calls + 1
         /\ Len(swing_levels_l'.highs) = swing_size_l + swing_size_r + 1)
          => /\ AllEqual(swing_levels_l'.highs)
                  => /\ swing_levels_l'.pivot_high = None
                     /\ swing_levels_l'.pivot_high_history
                            = swing_levels_l.pivot_high_history
             /\ AllEqual(swing_levels_l'.lows)
                  => /\ swing_levels_l'.pivot_low = None
                     /\ swing_levels_l'.pivot_low_history
                            = swing_levels_l.pivot_low_history
      ]_vars

\* a call was made on a full window of equal highs and equal lows
C8_Witness ==
    /\ WindowFull
    /\ AllEqual(swing_levels_l.highs)
    /\ AllEqual(swing_levels_l.lows)
    /\ swing_size_l = 2 /\ swing_size_r = 1

\* C9: with a full window, a pivot-high is reported iff the candidate's
\* high is at least every high of the window and above some high of the
\* window; the value reported is the candidate's high; and a higher high
\* anywhere in the window means no pivot-high.
C9_PivotHighIff ==
    WindowFull =>
        LET hs == swing_levels_l.highs
        IN  /\ (swing_levels_l.pivot_high # None)
                  <=> (/\ \A i \in 1..Len(hs) : hs[i] <= hs[Cand]
                       /\ \E i \in 1..Len(hs) : hs[i] < hs[Cand])
            /\ (swing_levels_l.pivot_high # None) => swing_levels_l.pivot_high = hs[Cand]
            /\ (\E i \in 1..Len(hs) : hs[i] > hs[Cand]) => swing_levels_l.pivot_high = None

\* a pivot-high was reported while the newest bar ties the candidate
C9_Witness ==
    /\ WindowFull
    /\ swing_levels_l.pivot_high # None
    /\ swing_levels_l.highs[Len(swing_levels_l.highs)] = swing_levels_l.highs[Cand]

\* C10: with a full window, a pivot-low is reported iff the candidate's low
\* is at most every low of the window and below some low of the window; the
\* value reported is the candidate's low.
C10_PivotLowIff ==
    WindowFull =>
        LET ls == swing_levels_l.lows
        IN  /\ (swing_levels_l.pivot_low # None)
                  <=> (/\ \A i \in 1..Len(ls) : ls[Cand] <= ls[i]
                       /\ \E i \in 1..Len(ls) : ls[Cand] < ls[i])
            /\ (swing_levels_l.pivot_low # None) => swing_levels_l.pivot_low = ls[Cand]

\* a pivot-low was reported on a bar that reported no pivot-high
C10_Witness ==
    /\ WindowFull
    /\ swing_levels_l.pivot_low # None
    /\ swing_levels_l.pivot_high = None

\* C11: a bar whose high is the strict unique maximum of its window is
\* confirmed as a pivot-high exactly once, by the call that completes its
\* window: that call reports its high and appends it, and not another bar,
\* to the pivot-high history; whatever a call appends is the bar fed R calls
\* before, so no earlier and no later call appends that bar.
C11_ConfirmedOnce ==
    [][ (swing_calls' = swing_calls + 1)
          => LET hs   == swing_levels_l'.highs
                 hist == swing_levels_l'.pivot_high_history
                 old  == swing_levels_l.pivot_high_history
             IN  /\ (/\ Len(hs) = swing_size_l + swing_size_r + 1
                     /\ \A i \in 1..Len(hs) : i # Cand => hs[i] < hs[Cand])
                       => /\ swing_levels_l'.pivot_high = hs[Cand]
                          /\ Len(hist) = Len(old) + 1
                          /\ hist[Len(hist)].n = swing_calls' - swing_size_r
                          /\ hist[Len(hist)].high = hs[Cand]
                 /\ (hist # old)
                       => /\ hist[Len(hist)].n = swing_calls' - swing_size_r
                          /\ \A k \in 1..Len(old) : old[k].n < hist[Len(hist)].n
      ]_vars

\* L = 2, R = 2 and highs 1, 2, 3, 2, 1 over lows all 1: the pivot-high 3 is
\* reported on the 5th call and the 3rd bar is the only entry of the history
C11_Witness ==
    /\ swing_size_l = 2 /\ swing_size_r = 2
    /\ swing_calls = 5
    /\ swing_levels_l.highs = <<1, 2, 3, 2, 1>>
    /\ swing_levels_l.lows = <<1, 1, 1, 1, 1>>
    /\ swing_levels_l.pivot_high = 3
    /\ Len(swing_levels_l.pivot_high_history) = 1
    /\ swing_levels_l.pivot_high_history[1].n = 3

IsPrefix(s, t) == Len(s) <= Len(t) /\ SubSeq(t, 1, Len(s)) = s

\* C12: no retraction.  The pivot-high and pivot-low histories are
\* append-only: every call leaves the entries already there in place,
\* unchanged and in their order.
C12_NoRetraction ==
    [][ /\ IsPrefix(swing_levels_l.pivot_high_history, swing_levels_l'.pivot_high_history)
        /\ IsPrefix(swing_levels_l.pivot_low_history, swing_levels_l'.pivot_low_history)
      ]_vars

\* a pivot-high is in the history and the newest bar's high is above it
C12_Witness ==
    /\ Len(swing_levels_l.pivot_high_history) >= 1
    /\ swing_levels_l.highs[Len(swing_levels_l.highs)]
           > swing_levels_l.pivot_high_history[1].high
    /\ swing_calls > swing_levels_l.pivot_high_history[1].n + swing_size_r

\* C13: warm-up.  After each of the first L + R calls both outputs are None
\* and both histories are empty.
C13_WarmUp ==
    (swing_calls <= swing_size_l + swing_size_r)
        => /\ swing_levels_l.pivot_high = None
           /\ swing_levels_l.pivot_low = None
           /\ swing_levels_l.pivot_high_history = <<>>
           /\ swing_levels_l.pivot_low_history = <<>>

\* L + R calls were made, and the bar at the candidate's position is the
\* highest and the lowest bar so far
C13_Witness ==
    /\ swing_calls = swing_size_l + swing_size_r
    /\ swing_size_r = 2
    /\ \A i \in 1..Len(swing_levels_l.highs) :
          i # Cand => /\ swing_levels_l.highs[i] < swing_levels_l.highs[Cand]
                      /\ swing_levels_l.lows[i] > swing_levels_l.lows[Cand]

\* C14 as claimed: a reported pivot-high is the unique highest high of the
\* window, a reported pivot-low the unique lowest low.
C14_UniqueExtreme ==
    WindowFull =>
        /\ (swing_levels_l.pivot_high # None)
              => \A i \in 1..Len(swing_levels_l.highs) :
                    i # Cand => swing_levels_l.highs[i] # swing_levels_l.highs[Cand]
        /\ (swing_levels_l.pivot_low # None)
              => \A i \in 1..Len(swing_levels_l.lows) :
                    i # Cand => swing_levels_l.lows[i] # swing_levels_l.lows[Cand]

\* C14 as amended: a reported pivot-high has no higher high in its window
\* and some lower one, a reported pivot-low no lower low and some higher
\* one; other bars of the window may tie with the candidate.
C14_ExtremeWithTies ==
    WindowFull =>
        /\ (swing_levels_l.pivot_high # None)
              => /\ \A i \in 1..Len(swing_levels_l.highs) :
                       swing_levels_l.highs[i] <= swing_levels_l.highs[Cand]
                 /\ \E i \in 1..Len(swing_levels_l.highs) :
                       swing_levels_l.highs[i] < swing_levels_l.highs[Cand]
        /\ (swing_levels_l.pivot_low # None)
              => /\ \A i \in 1..Len(swing_levels_l.lows) :
                       swing_levels_l.lows[i] >= swing_levels_l.lows[Cand]
                 /\ \E i \in 1..Len(swing_levels_l.lows) :
                       swing_levels_l.lows[i] > swing_levels_l.lows[Cand]

\* a pivot-low was reported whose low another bar of the window ties
C14_Witness ==
    /\ WindowFull
    /\ swing_levels_l.pivot_low # None
    /\ \E i \in 1..Len(swing_levels_l.lows) :
          i # Cand /\ swing_levels_l.lows[i] = swing_levels_l.lows[Cand]

\* ------------------------------------------------------------------------
\* Properties: the ledger
\* ------------------------------------------------------------------------
\* a step that handled a bar
BarStep == bars_seen' # bars_seen

\* the timestamps of the rows, in ledger order
RowTs(hist) == [ i \in 1..Len(hist) |-> hist[i].ts ]

\* the long-timeframe OHLC values of a row or of the caches
LongOf(c) == [ s \in {"a_l", "b_l", "ratio_l"} |-> c[s] ]

\* C15: the number of ledger rows equals the number of distinct bar
\* timestamps seen: a bar whose timestamp has a row leaves the rows'
\* timestamps as they were, any other bar adds exactly one row, the last.
C15_RowPerTimestamp ==
    [][ BarStep
          => /\ Len(df_history') = Cardinality(seen_ts')
             /\ (last_event'.ts \in seen_ts) => RowTs(df_history') = RowTs(df_history)
             /\ (last_event'.ts \notin seen_ts)
                   => RowTs(df_history') = Append(RowTs(df_history), last_event'.ts)
      ]_vars

\* three bars, of two timestamps, the older timestamp arriving after the
\* newer one and then once more
C15_Witness ==
    /\ BarsDelivered = 3
    /\ Len(df_history) = 2
    /\ last_event.type = "bar" /\ last_event.in_place
    /\ last_event.ts < df_history[1].ts

\* C16: with bars delivered in non-decreasing timestamp order, the first
\* row has l_index 0 and each later row has the l_index of the row before
\* it, plus one if any long-timeframe OHLC value differs between the two
\* rows (so l_index never decreases along the rows).
C16_EpochAlongRows ==
    /\ Len(df_history) >= 1 => df_history[1].l_index = 0
    /\ \A i \in 1..(Len(df_history) - 1) :
          /\ df_history[i + 1].l_index >= df_history[i].l_index
          /\ df_history[i + 1].l_index =
                df_history[i].l_index
                  + (IF LongOf(df_history[i + 1].c) # LongOf(df_history[i].c) THEN 1 ELSE 0)

\* the three long-timeframe streams all changed between two rows, one of
\* them in value, and l_index rose by one
C16_Witness ==
    /\ Len(df_history) = 2
    /\ \A s \in {"a_l", "b_l", "ratio_l"} : df_history[2].c[s] # df_history[1].c[s]
    /\ df_history[1].c["a_l"] # NoBar
    /\ df_history[2].l_index = 1

\* C17 as claimed: a bar whose timestamp has a row updates that row in
\* place, and the row's l_index is what it was.
C17_EpochKept ==
    [][ (BarStep /\ last_event'.in_place)
          => /\ RowTs(df_history') = RowTs(df_history)
             /\ \A i \in 1..Len(df_history) :
                   df_history[i].ts = last_event'.ts
                       => df_history'[i].l_index = df_history[i].l_index
      ]_vars

\* the reference row of an update of the row of ts: the last row if it is
\* older than ts, the row before the last if the last row is the row of ts,
\* else the last of the rows older than ts; 0 if there is none
RefRowOf(hist, ts) ==
    IF hist[Len(hist)].ts < ts THEN Len(hist)
    ELSE IF hist[Len(hist)].ts = ts THEN Len(hist) - 1
    ELSE IF \E i \in 1..Len(hist) : hist[i].ts < ts
    THEN CHOOSE i \in 1..Len(hist) :
             /\ hist[i].ts < ts
             /\ \A j \in 1..Len(hist) : hist[j].ts < ts => j <= i
    ELSE 0

\* C17 as amended: a bar whose timestamp has a row updates that row in
\* place (no row is added, moved or otherwise changed), and the row's
\* l_index is computed anew as for a fresh row: the reference row's l_index,
\* plus one if any long-timeframe OHLC value of the caches differs from the
\* reference row's, and 0 without a reference row.
C17_EpochRecomputed ==
    [][ (BarStep /\ last_event'.in_place)
          => /\ RowTs(df_history') = RowTs(df_history)
             /\ \A i \in 1..Len(df_history) :
                   IF df_history[i].ts # last_event'.ts
                   THEN df_history'[i] = df_history[i]
                   ELSE LET r == RefRowOf(df_history, last_event'.ts)
                        IN  df_history'[i].l_index =
                               IF r = 0 THEN 0
                               ELSE df_history[r].l_index
                                      + (IF LongOf(cache') # LongOf(df_history[r].c)
                                         THEN 1 ELSE 0)
      ]_vars

\* a row was updated in place and its l_index is not what it was
C17_Witness ==
    /\ last_event.type = "bar" /\ last_event.in_place
    /\ \E i \in 1..Len(df_history) :
          /\ df_history[i].ts = last_event.ts
          /\ df_history[i].l_index # last_event.l_index_before

\* C18: the ledger rows are in strictly ascending timestamp order.
C18_RowsAscending ==
    \A i \in 1..Len(df_history) : \A j \in 1..Len(df_history) :
        (i < j) => df_history[i].ts < df_history[j].ts

\* C19: a ledger row carries long-timeframe swing values only if the
\* long-timeframe detector confirmed a pivot on a ratio-long bar of the
\* row's own timestamp.
C19_SwingOnOwnBarOnly ==
    \A i \in 1..Len(df_history) :
        (NotNa(df_history[i].swing_l_low) \/ NotNa(df_history[i].swing_l_high))
            => df_history[i].ts \in confirmed_at

\* the rows the previous-swing lookup may return for a bar of timestamp ts
SwingRowsBut(hist, ts) ==
    { i \in 1..Len(hist) :
        /\ hist[i].ts # ts
        /\ (NotNa(hist[i].swing_l_high) \/ NotNa(hist[i].swing_l_low)) }

\* C20: the previous-swing lookup of an evaluation returns the last ledger
\* row, other than the row of the bar's own timestamp, that has a non-null
\* long-timeframe swing value (none if there is no such row); the row of
\* the bar's own timestamp is never returned.
C20_PreSwingExcludesOwnRow ==
    [][ (BarStep /\ last_event'.d.path # "no_price")
          => LET ts   == last_event'.ts
                 pre  == last_event'.pre_swing_l_ts
                 rows == SwingRowsBut(df_history', ts)
             IN  /\ pre # ts
                 /\ (rows = {}) => pre = 0
                 /\ (rows # {})
                       => \E i \in rows :
                             /\ df_history'[i].ts = pre
                             /\ \A j \in rows : j <= i /\ df_history'[j].ts <= pre
      ]_vars

\* a ratio-long bar confirmed a pivot, its own row carries it, and the
\* lookup returned an earlier row
C20_Witness ==
    /\ last_event.type = "bar" /\ last_event.stream = "ratio_l"
    /\ last_event.ts \in confirmed_at
    /\ \E i \in 1..Len(df_history) :
          /\ df_history[i].ts = last_event.ts
          /\ NotNa(df_history[i].swing_l_high)
    /\ last_event.pre_swing_l_ts # 0
    /\ last_event.pre_swing_l_ts < last_event.ts

\* ------------------------------------------------------------------------
\* Properties: the sizing rule
\* ------------------------------------------------------------------------
\* an order intent: what is to be traded, whether submitted or deferred
Intent(side, inst, q, price) ==
    [ side |-> side, instrument_id |-> inst, quantity |-> q, price |-> price ]

\* the intents of the orders at positions a..b of ords
IntentsOf(ords, a, b) ==
    { Intent(ords[k].side, ords[k].instrument_id, ords[k].quantity, ords[k].price) :
        k \in a..b }

\* the intent the slot holds for cycle c, if any
DeferredBy(slot, c) ==
    IF slot # <<>> /\ slot[1].cycle = c
    THEN { Intent("BUY", slot[1].instrument_id, slot[1].quantity, slot[1].price) }
    ELSE {}

\* the intents the sizing rule asks of a cycle with asset_h = high
RuleIntents(high) ==
    LET low == OtherInst(high)
        dl  == DeltaLow(high)
        dh  == DeltaHigh(high)
    IN  (IF dl > 0 THEN { Intent("SELL", low, dl, PriceOf(low) * PriceScale) } ELSE {})
        \cup (IF dl < 0 THEN { Intent("BUY", low, 0 - dl, PriceOf(low) * PriceScale) } ELSE {})
        \cup (IF dh < 0 THEN { Intent("SELL", high, 0 - dh, PriceOf(high) * PriceScale) } ELSE {})
        \cup (IF dh > 0 THEN { Intent("BUY", high, dh, PriceOf(high) * PriceScale) } ELSE {})

\* the intents of the cycle a step ran: the orders it submitted and the buy
\* it deferred
StepIntents ==
    IntentsOf(orders', Len(orders) + 1, Len(orders'))
        \cup DeferredBy(pending_buy_instruction', cycles')

\* C21: the sizing rule.  A cycle computes delta_low = qty_low -
\* floor(total_position * (1 - h) / price_low) and delta_high =
\* floor(total_position * h / price_high) - qty_high, and its order intents,
\* submitted or deferred, are exactly: SELL delta_low of the low-weight asset
\* iff delta_low > 0, BUY |delta_low| of it iff delta_low < 0, SELL
\* |delta_high| of the high-weight asset iff delta_high < 0, BUY delta_high
\* of it iff delta_high > 0; each intent once.
C21_SizingRule ==
    [][ CycleStep
          => /\ last_event'.qty_to_sell_l = DeltaLow(last_event'.high)
             /\ last_event'.qty_to_buy_h = DeltaHigh(last_event'.high)
             /\ StepIntents = RuleIntents(last_event'.high)
             /\ (Len(orders') - Len(orders))
                  + Cardinality(DeferredBy(pending_buy_instruction', cycles'))
                    = Cardinality(RuleIntents(last_event'.high))
      ]_vars

\* a cycle found the high-weight asset overweight and the low-weight asset
\* underweight: it sold the one and deferred the buy of the other
C21_Witness ==
    /\ cycles = 1
    /\ last_event.type = "cycle"
    /\ last_event.qty_to_sell_l < 0 /\ last_event.qty_to_buy_h < 0
    /\ Len(orders) = 1
    /\ orders[1].side = "SELL" /\ orders[1].instrument_id = last_event.high
    /\ DeferredBy(pending_buy_instruction, 1) # {}
    /\ pending_buy_instruction[1].instrument_id = OtherInst(last_event.high)

\* the positions in orders of the orders cycle c submitted
OrdersOfCycle(c) == { k \in 1..Len(orders) : orders[k].cycle = c }

\* the intents of the orders the cycle before this step submitted
PrevStepIntents ==
    { Intent(orders[k].side, orders[k].instrument_id, orders[k].quantity,
             orders[k].price) : k \in OrdersOfCycle(cycles) }

\* a step that ran a cycle right after a cycle with the same asset_h
RepeatStep ==
    /\ CycleStep
    /\ last_event.type = "cycle"
    /\ last_event.high = last_event'.high

\* C22: sizing is idempotent at a fixed snapshot.  A cycle run again with
\* the same prices, quantities, total_position, ratio and threshold computes
\* the same deltas and has the same order intents as the run before it,
\* whatever the pending slot holds by then and whatever the dedupe marker
\* and the ledger are.
C22_Idempotent ==
    [][ (RepeatStep /\ last_event.ratio_threshold = last_event'.ratio_threshold)
          => /\ last_event'.qty_to_sell_l = last_event.qty_to_sell_l
             /\ last_event'.qty_to_buy_h = last_event.qty_to_buy_h
             /\ IntentsOf(orders', Len(orders) + 1, Len(orders')) = PrevStepIntents
             /\ Len(orders') - Len(orders) = Cardinality(OrdersOfCycle(cycles))
             /\ DeferredBy(pending_buy_instruction', cycles')
                    = DeferredBy(pending_buy_instruction, cycles)
      ]_vars

\* the cycle was run twice with the same asset_h and threshold; the first
\* run started from an empty slot and deferred a buy, so the second run
\* found the slot filled; the dedupe marker is set and the ledger has a row
C22_Witness ==
    /\ cycles = 2
    /\ last_event.type = "cycle"
    /\ last_event.prev # <<>>
    /\ last_event.prev[1].high = last_event.high
    /\ last_event.prev[1].ratio_threshold = last_event.ratio_threshold
    /\ last_event.slot # <<>> /\ last_event.slot[1].cycle = 1
    /\ Len(orders) = 2 /\ orders[1].side = "SELL" /\ orders[2].side = "SELL"
    /\ DeferredBy(pending_buy_instruction, 2) # {}
    /\ last_acted_breakout = ActedOnSwingRow
    /\ Len(df_history) = 1

AssetStreams == {"a_s", "b_s", "a_l", "b_l"}

\* a step that handled a bar of the stream
BarStepOf(stream) == BarStep /\ last_event'.stream = stream

\* both short-timeframe closes are known once the bar is cached
PricesKnown == NotNa(cache'["a_s"].c) /\ NotNa(cache'["b_s"].c)

\* the invested value of both legs at the closes cached with the bar
Invested ==
    (IF qty["A"] > 0 THEN qty["A"] * cache'["a_s"].c ELSE 0)
  + (IF qty["B"] > 0 THEN qty["B"] * cache'["b_s"].c ELSE 0)

\* the long-timeframe detector confirmed a pivot on the bar of the step
LowConfirmed == NotNa(swing_levels_l'.pivot_low)
HighConfirmed == NotNa(swing_levels_l'.pivot_high)

\* the step ran one sizing cycle, with asset_h = high: its intents are the
\* ones of the sizing rule for that asset_h
RanCycleFor(high) ==
    /\ cycles' = cycles + 1
    /\ last_event'.d.high = high
    /\ StepIntents = RuleIntents(high)

\* the step ran no cycle and submitted nothing
RanNothing ==
    /\ cycles' = cycles
    /\ orders' = orders
    /\ pending_buy_instruction' = pending_buy_instruction

\* the previous confirmed swing row of the bar of the step, as a position in
\* the ledger after the step; 0 if there is none
PrevSwing ==
    IF SwingRowsBut(df_history', last_event'.ts) = {} THEN 0
    ELSE SetMax(SwingRowsBut(df_history', last_event'.ts))

\* the row of the bar of the step is in the ledger, with the caches
RowWritten ==
    \E i \in 1..Len(df_history') :
        df_history'[i].ts = last_event'.ts /\ df_history'[i].c = cache'

BreaksLow ==
    /\ PrevSwing # 0
    /\ NotNa(df_history'[PrevSwing].swing_l_low)
    /\ cache'["ratio_s"].l < df_history'[PrevSwing].swing_l_low
BreaksHigh ==
    /\ PrevSwing # 0
    /\ NotNa(df_history'[PrevSwing].swing_l_high)
    /\ cache'["ratio_s"].h > df_history'[PrevSwing].swing_l_high

\* the dedupe marker is the one of the previous swing row and direction
Marked(dir) ==
    PrevSwing # 0 /\ last_acted_breakout = <<df_history'[PrevSwing].ts, dir>>

\* C25 as claimed: a ratio-short bar that breaks the previous pivot-low
\* rebalances with asset B as asset_h, a ratio-short bar that breaks the
\* previous pivot-high rebalances with asset A as asset_h, each unless the
\* dedupe marker is the one of that swing row and direction.
C25_Breakout ==
    [][ (BarStepOf("ratio_s") /\ PricesKnown)
          => /\ (BreaksLow /\ ~Marked("low")) => RanCycleFor("B")
             /\ (BreaksHigh /\ ~Marked("high")) => RanCycleFor("A")
      ]_vars

\* C25 as amended: the pivot-low is looked at first.  A ratio-short bar
\* that breaks the previous pivot-low rebalances with asset B as asset_h
\* unless the marker is the one of that swing row and "low"; a ratio-short
\* bar that does not break the previous pivot-low and breaks the previous
\* pivot-high rebalances with asset A as asset_h unless the marker is the
\* one of that swing row and "high"; a ratio-short bar runs no cycle
\* otherwise.
C25_BreakoutLowFirst ==
    [][ (BarStepOf("ratio_s") /\ PricesKnown)
          => /\ (BreaksLow /\ ~Marked("low")) => RanCycleFor("B")
             /\ (~BreaksLow /\ BreaksHigh /\ ~Marked("high")) => RanCycleFor("A")
             /\ ~( \/ (BreaksLow /\ ~Marked("low"))
                   \/ (~BreaksLow /\ BreaksHigh /\ ~Marked("high")) ) => RanNothing
      ]_vars

\* a ratio-short bar broke the previous pivot-high, not the pivot-low, and
\* the cycle ran for asset A
C25_Witness ==
    /\ last_event.type = "bar" /\ last_event.stream = "ratio_s"
    /\ last_event.d.path = "bos" /\ last_event.d.dir = "high"
    /\ last_event.d.high = "A"
    /\ last_acted_breakout = <<last_event.pre_swing_l_ts, "high">>
    /\ Len(short_log) >= 1
    /\ ~short_log[Len(short_log)].low_cond
    /\ Len(orders) >= 1 /\ orders[Len(orders)].cycle = cycles

\* C26 as claimed: a ratio-long bar that confirms a pivot while something
\* is invested runs a sizing cycle, with asset A as asset_h for a pivot-low
\* and asset B for a pivot-high, whatever the dedupe marker is and whether
\* a previous confirmed swing row exists or not.
C26_ConfirmationAlwaysActs ==
    [][ (BarStepOf("ratio_l") /\ PricesKnown /\ Invested # 0)
          => /\ LowConfirmed => RanCycleFor("A")
             /\ (HighConfirmed /\ ~LowConfirmed) => RanCycleFor("B")
      ]_vars

\* C26 as amended: such a bar runs the cycle, whatever the dedupe marker
\* is, if a previous confirmed swing row exists; if none exists it runs no
\* cycle and submits nothing.
C26_ConfirmationActsAfterSwing ==
    [][ (BarStepOf("ratio_l") /\ PricesKnown /\ Invested # 0)
          => /\ (PrevSwing # 0 /\ LowConfirmed) => RanCycleFor("A")
             /\ (PrevSwing # 0 /\ HighConfirmed /\ ~LowConfirmed) => RanCycleFor("B")
             /\ (PrevSwing = 0) => RanNothing
             /\ last_acted_breakout' = last_acted_breakout
      ]_vars

\* a ratio-long bar confirmed a pivot with something invested and the
\* cycle ran, while the dedupe marker was the one of the previous swing row
C26_Witness ==
    /\ last_event.type = "bar" /\ last_event.stream = "ratio_l"
    /\ last_event.d.path = "normal"
    /\ last_event.ts \in confirmed_at
    /\ last_acted_breakout # <<>>
    /\ last_acted_breakout[1] = last_event.pre_swing_l_ts
    /\ Len(orders) >= 1 /\ orders[Len(orders)].cycle = cycles

\* C27: at most one trigger per bar.  Handling a bar runs at most one
\* sizing cycle, so the orders it submits belong to one cycle; and when the
\* bootstrap condition matches, the bar runs the bootstrap cycle or nothing
\* and the dedupe marker stays as it is.
C27_OneTriggerPerBar ==
    [][ BarStep
          => /\ cycles' <= cycles + 1
             /\ \A k \in (Len(orders) + 1)..Len(orders') : orders'[k].cycle = cycles'
             /\ (last_event'.stream = "ratio_l" /\ PricesKnown /\ Invested = 0)
                   => /\ last_event'.d.path \in {"bootstrap", "bootstrap_none"}
                      /\ last_acted_breakout' = last_acted_breakout
      ]_vars

\* the bootstrap cycle ran on a bar that has a previous confirmed swing
\* row: the long-timeframe confirmation would have matched as well
C27_Witness ==
    /\ last_event.type = "bar" /\ last_event.stream = "ratio_l"
    /\ last_event.d.path = "bootstrap"
    /\ last_event.pre_swing_l_ts # 0
    /\ Len(orders) >= 1 /\ orders[Len(orders)].cycle = cycles

\* C28: a bar of an asset stream writes its ledger row, submits no order
\* and leaves the pending slot and the dedupe marker as they are.
C28_AssetBarsOnlyLedger ==
    [][ (BarStep /\ last_event'.stream \in AssetStreams)
          => /\ RanNothing
             /\ last_acted_breakout' = last_acted_breakout
             /\ RowWritten
      ]_vars

\* an asset bar was handled, after the first timestamp, while the cached
\* ratio-short low was below the previous pivot-low and the marker was not
\* the one of that breakout
C28_Witness ==
    /\ last_event.type = "bar" /\ last_event.stream \in AssetStreams
    /\ last_event.ts > 1
    /\ last_event.pre_swing_l_ts # 0
    /\ \E i \in 1..Len(df_history) :
          /\ df_history[i].ts = last_event.pre_swing_l_ts
          /\ NotNa(df_history[i].swing_l_low)
          /\ NotNa(cache["ratio_s"].l)
          /\ cache["ratio_s"].l < df_history[i].swing_l_low
    /\ last_acted_breakout # <<last_event.pre_swing_l_ts, "low">>

\* a step in which order i is rejected or denied
RefusalStep(i) ==
    orders[i].status = "open" /\ orders'[i].status \in {"rejected", "denied"}

\* C29: a rejection or denial submits nothing and leaves every other order,
\* the pending slot, the dedupe marker, the ledger and the daily fill
\* records as they are; and a buy pending after a rejection or denial is
\* released by the next SELL fill.
C29_RefusalChangesNothing ==
    [][ \A i \in 1..Len(orders) :
          /\ RefusalStep(i)
                => /\ Len(orders') = Len(orders)
                   /\ \A j \in 1..Len(orders) : j # i => orders'[j] = orders[j]
                   /\ pending_buy_instruction' = pending_buy_instruction
                   /\ last_acted_breakout' = last_acted_breakout
                   /\ df_history' = df_history
                   /\ daily_fills_log' = daily_fills_log
                   /\ cycles' = cycles
          /\ (FillStep(i) /\ orders[i].side = "SELL" /\ Refused(orders) > 0
              /\ pending_buy_instruction # <<>>)
                => /\ Len(orders') = Len(orders) + 1
                   /\ orders'[Len(orders')].side = "BUY"
                   /\ orders'[Len(orders')].instrument_id
                          = pending_buy_instruction[1].instrument_id
                   /\ orders'[Len(orders')].quantity = pending_buy_instruction[1].quantity
                   /\ orders'[Len(orders')].price = pending_buy_instruction[1].price
                   /\ pending_buy_instruction' = <<>>
      ]_vars

\* the SELL of a cycle that deferred a buy was rejected or denied, and a
\* later SELL fill released that buy
C29_Witness ==
    /\ last_event.type = "fill" /\ last_event.side = "SELL"
    /\ last_event.slot # <<>>
    /\ orders[Len(orders)].via = "fill"
    /\ \E k \in 1..Len(orders) :
          /\ orders[k].status \in {"rejected", "denied"}
          /\ orders[k].side = "SELL"
          /\ orders[k].cycle = last_event.slot[1].cycle

\* C30: missing reference data skips the evaluation.  A bar handled while
\* a short-timeframe close is unknown, or, outside the bootstrap case (a
\* ratio-long bar with nothing invested), while no previous confirmed swing
\* row exists, submits nothing and leaves the pending slot and the dedupe
\* marker as they are; its ledger row is written.
C30_MissingDataSkips ==
    [][ (BarStep /\ ( \/ ~PricesKnown
                      \/ /\ PrevSwing = 0
                         /\ ~(last_event'.stream = "ratio_l" /\ Invested = 0) ))
          => /\ RanNothing
             /\ last_acted_breakout' = last_acted_breakout
             /\ RowWritten
      ]_vars

\* a ratio-long bar confirmed the first pivot of the run with something
\* invested: there is no previous swing row, and nothing was submitted
C30_Witness ==
    /\ last_event.type = "bar" /\ last_event.stream = "ratio_l"
    /\ last_event.d.path = "no_pre_swing"
    /\ last_event.ts \in confirmed_at
    /\ qty["A"] > 0
    /\ orders = <<>>

\* ------------------------------------------------------------------------
\* Properties: the pending slot and the fill handler
\* ------------------------------------------------------------------------
\* a bar step that ran a sizing cycle
BarRanCycle == BarStep /\ cycles' = cycles + 1 /\ last_event'.d.runs

\* the buy the slot holds, without the cycle it came from
SlotBuy(slot) ==
    [ instrument_id |-> slot[1].instrument_id, quantity |-> slot[1].quantity,
      price |-> slot[1].price ]

\* C31: single pending slot.  At most one buy instruction is pending.  A
\* cycle that sells and has a BUY leg while an earlier deferred BUY is still
\* pending leaves in the slot its own BUY only; an order submitted by the
\* fill handler is the instruction the slot held just before, whereupon the
\* slot is empty; every other order belongs to the cycle that submits it; and
\* the slot takes a new instruction only from a new cycle.  Hence an
\* overwritten BUY is never in the slot again and is never submitted.
C31_SinglePendingSlot ==
    [][ /\ Len(pending_buy_instruction') <= 1
        /\ (BarRanCycle /\ pending_buy_instruction # <<>> /\ last_event'.sold
            /\ BuyLegs(last_event'.d.high) # {})
              => /\ pending_buy_instruction' # <<>>
                 /\ pending_buy_instruction'[1].cycle = cycles'
                 /\ SlotBuy(pending_buy_instruction') \in BuyLegs(last_event'.d.high)
        /\ \A k \in (Len(orders) + 1)..Len(orders') :
              IF orders'[k].via = "fill"
              THEN /\ pending_buy_instruction # <<>>
                   /\ orders'[k].cycle = pending_buy_instruction[1].cycle
                   /\ orders'[k].instrument_id = pending_buy_instruction[1].instrument_id
                   /\ orders'[k].quantity = pending_buy_instruction[1].quantity
                   /\ orders'[k].price = pending_buy_instruction[1].price
                   /\ pending_buy_instruction' = <<>>
              ELSE orders'[k].cycle = cycles' /\ cycles' = cycles + 1
        /\ (pending_buy_instruction' # <<>>
            /\ pending_buy_instruction' # pending_buy_instruction)
              => /\ cycles' = cycles + 1
                 /\ pending_buy_instruction'[1].cycle = cycles'
      ]_vars

\* a cycle deferred its BUY over the BUY an earlier cycle had deferred, and
\* no BUY of that earlier cycle is among the orders
C31_Witness ==
    /\ last_event.type = "bar" /\ last_event.d.runs /\ last_event.sold
    /\ last_event.slot # <<>>
    /\ last_event.slot[1].cycle < cycles
    /\ pending_buy_instruction # <<>>
    /\ pending_buy_instruction[1].cycle = cycles
    /\ \A k \in 1..Len(orders) :
          orders[k].cycle = last_event.slot[1].cycle => orders[k].side = "SELL"

\* the dates that have a record in the fill log
LogDates(log) == { log[k].date : k \in 1..Len(log) }

\* a step in which a fill was handled
FillHandled == \E i \in 1..Len(orders) : FillStep(i)

\* C32: daily fill folding.  A fill dated D creates the record for D if
\* there is none and otherwise updates it in place, and changes no record of
\* another date; the log has exactly one record per fill date; with fills
\* delivered in date order the dates ascend along the log and only its last
\* record is ever written, so that a record is final once a later date has
\* a fill.  No other step touches the log.
C32_DailyFolding ==
    [][ /\ FillHandled
              => /\ LogDates(daily_fills_log')
                        = LogDates(daily_fills_log) \cup {DateKey(now)}
                 /\ Len(daily_fills_log') = Cardinality(LogDates(daily_fills_log'))
                 /\ \A k \in 1..Len(daily_fills_log) :
                       /\ daily_fills_log'[k].date = daily_fills_log[k].date
                       /\ daily_fills_log[k].date # DateKey(now)
                             => daily_fills_log'[k] = daily_fills_log[k]
                 /\ \A k \in 1..(Len(daily_fills_log') - 1) :
                       /\ daily_fills_log'[k] = daily_fills_log[k]
                       /\ daily_fills_log'[k].date < daily_fills_log'[k + 1].date
                 /\ daily_fills_log'[Len(daily_fills_log')].date = DateKey(now)
        /\ ~FillHandled => daily_fills_log' = daily_fills_log
      ]_vars

\* two dates have a record; the record of the later date has folded a fill
\* of asset A and a fill of asset B, the second of them just handled
C32_Witness ==
    /\ last_event.type = "fill"
    /\ Len(daily_fills_log) = 2
    /\ daily_fills_log[1].date < daily_fills_log[2].date
    /\ daily_fills_log[2].date = DateKey(now)
    /\ daily_fills_log[2].fill_qty_a > 0
    /\ daily_fills_log[2].fill_qty_b > 0

\* total equity as record_fill computes it after the fill of the step: free
\* cash and both positions at the cached short-timeframe closes
EquityAfterFill ==
    cash' + qty'["A"] * (IF NotNa(cache["a_s"].c) THEN cache["a_s"].c ELSE 0)
          + qty'["B"] * (IF NotNa(cache["b_s"].c) THEN cache["b_s"].c ELSE 0)

\* C33: equity change of a daily record.  After each fill the record of the
\* fill's date shows the current total equity, and its percent change, kept
\* to two decimals, is 0 if the log has no record of a prior date or if the
\* record of the prior date has total equity 0, and otherwise
\* (total - prior) / prior * 100 with prior the total equity stored in the
\* record of the immediately preceding date.
C33_EquityChange ==
    [][ FillHandled
          => LET n   == Len(daily_fills_log')
                 rec == daily_fills_log'[n]
             IN  /\ rec.date = DateKey(now)
                 /\ rec.total_position = EquityAfterFill
                 /\ n = 1 => rec.pos_change = 0
                 /\ (n > 1 /\ daily_fills_log'[n - 1].total_position = 0)
                       => rec.pos_change = 0
                 /\ (n > 1 /\ daily_fills_log'[n - 1].total_position # 0)
                       => rec.pos_change
                            = Round2((EquityAfterFill
                                        - daily_fills_log'[n - 1].total_position) * 100,
                                     daily_fills_log'[n - 1].total_position)
      ]_vars

\* the close of asset A moved between the fills of two dates: the later
\* record shows a change of total equity
C33_Witness ==
    /\ last_event.type = "fill"
    /\ Len(daily_fills_log) >= 2
    /\ daily_fills_log[Len(daily_fills_log)].date = DateKey(now)
    /\ daily_fills_log[Len(daily_fills_log)].pos_change # 0
    /\ daily_fills_log[Len(daily_fills_log)].total_position
          # daily_fills_log[Len(daily_fills_log) - 1].total_position

\* C34: no failure escapes the fill handler.  In every reachable state, the
\* states before any sizing cycle has run included, on_order_filled called
\* with a fill event completes normally and leaves a daily record with all
\* its fields, the allocation type included, defined: record_fill does not
\* raise in that state.
C34_FillHandlerCompletes ==
    ~RecordFillRaises(daily_fills_log, DateKey(now), current_allocation_type)

\* the fills of a run are fills of the strategy's own orders, and those find
\* the allocation type set: while an order is open, or once a fill has been
\* handled, a sizing cycle has run
OwnFillsFindAllocationType ==
    /\ (\E i \in 1..Len(orders) : orders[i].status = "open")
          => current_allocation_type # "unset"
    /\ last_event.type = "fill" => ~last_event.raised
    /\ \A k \in 1..Len(daily_fills_log) :
          daily_fills_log[k].allocation_type \in {"Normal", "BOS"}

\* ------------------------------------------------------------------------
\* Properties: the orders of a sizing cycle
\* ------------------------------------------------------------------------
\* C35: every SELL order a sizing cycle submits is a reduce-only GTC limit
\* order priced at the current close of its instrument, and its quantity is
\* positive and at most the quantity of that instrument held when it is
\* submitted (total_position >= 0 and 0 <= h <= 1).
C35_SellReduceOnly ==
    [][ CycleStep
          => \A k \in (Len(orders) + 1)..Len(orders') :
                orders'[k].side = "SELL"
                   => /\ orders'[k].reduce_only
                      /\ orders'[k].time_in_force = "GTC"
                      /\ orders'[k].type = "LIMIT"
                      /\ orders'[k].price
                            = PriceOf(orders'[k].instrument_id) * PriceScale
                      /\ orders'[k].quantity > 0
                      /\ orders'[k].quantity <= qty[orders'[k].instrument_id]
      ]_vars

\* a cycle sold the whole holding of the low-weight asset: its target
\* quantity is 0
C35_Witness ==
    /\ cycles = 1
    /\ last_event.type = "cycle"
    /\ Len(orders) = 1
    /\ orders[1].side = "SELL" /\ orders[1].reduce_only
    /\ orders[1].instrument_id = OtherInst(last_event.high)
    /\ orders[1].quantity = qty[orders[1].instrument_id]

\* the notional, at their limit prices, of the orders of the side among
\* positions a..b of ords; a limit price is a whole number of currency
\* units, kept in units of 1 / PriceScale
RECURSIVE SideNotional(_, _, _, _)
SideNotional(ords, a, b, side) ==
    IF a > b THEN 0
    ELSE (IF ords[a].side = side
          THEN ords[a].quantity * (ords[a].price \div PriceScale) ELSE 0)
         + SideNotional(ords, a + 1, b, side)

\* the notional of the buy the slot holds for cycle c, 0 if it holds none
DeferredNotional(slot, c) ==
    IF slot # <<>> /\ slot[1].cycle = c
    THEN slot[1].quantity * (slot[1].price \div PriceScale) ELSE 0

\* C36: budget balance of a sizing cycle.  With non-negative holdings and
\* total_position = cash + value of both legs at the prices passed in, the
\* notional of the cycle's BUY legs, submitted or deferred, at their limit
\* prices is at most the cash plus the notional of the cycle's SELL legs at
\* their limit prices; in a cycle with no SELL the BUY orders submitted at
\* once cost at most the cash.
C36_BudgetBalance ==
    [][ CycleStep
          => /\ SideNotional(orders', Len(orders) + 1, Len(orders'), "BUY")
                  + DeferredNotional(pending_buy_instruction', cycles')
                    <= cash + SideNotional(orders', Len(orders) + 1, Len(orders'), "SELL")
             /\ ~last_event'.sold
                   => SideNotional(orders', Len(orders) + 1, Len(orders'), "BUY")
                         <= cash
      ]_vars

\* a cycle whose deferred BUY costs more than the cash and exactly the cash
\* plus the proceeds of its SELL
C36_Witness ==
    /\ cycles = 1
    /\ last_event.type = "cycle" /\ last_event.sold
    /\ DeferredNotional(pending_buy_instruction, 1) > cash
    /\ DeferredNotional(pending_buy_instruction, 1)
          = cash + SideNotional(orders, 1, Len(orders), "SELL")

\* the orders the fill handler submitted for the buy deferred by cycle c
ReleasesOf(ords, c) ==
    { k \in 1..Len(ords) : ords[k].via = "fill" /\ ords[k].cycle = c }

\* C37: a fill event of side BUY, and any fill event handled while no buy
\* instruction is pending, submits no order and leaves the pending slot as
\* it was; and the buy a cycle deferred is submitted at most once.
C37_OtherFillsSubmitNothing ==
    [][ /\ \A i \in 1..Len(orders) :
              (FillStep(i) /\ (orders[i].side = "BUY" \/ pending_buy_instruction = <<>>))
                  => /\ Len(orders') = Len(orders)
                     /\ pending_buy_instruction' = pending_buy_instruction
        /\ \A c \in 1..cycles' : Cardinality(ReleasesOf(orders', c)) <= 1
      ]_vars

\* a BUY fill was just handled while a buy was pending: the buy is still
\* pending and nothing was submitted
C37_Witness ==
    /\ last_event.type = "fill"
    /\ last_event.side = "BUY"
    /\ last_event.slot # <<>>
    /\ pending_buy_instruction = last_event.slot
    /\ fresh = {}
    /\ ReleasesOf(orders, pending_buy_instruction[1].cycle) = {}

\* ------------------------------------------------------------------------
\* Properties: a pivot-low and a pivot-high confirmed by one bar
\* ------------------------------------------------------------------------
\* C38, as stated: a ratio-long bar on which the detector confirms both a
\* pivot-low and a pivot-high runs exactly one sizing cycle, with asset A as
\* the high-weight asset.
C38_TieIsPivotLow ==
    [][ (BarStepOf("ratio_l") /\ PricesKnown /\ LowConfirmed /\ HighConfirmed)
          => RanCycleFor("A")
      ]_vars

\* C38, amended: a ratio-long bar on which the detector confirms both a
\* pivot-low and a pivot-high is treated as a pivot-low by the bootstrap
\* path and by the long-timeframe-confirmation path: if nothing is invested,
\* or if a previous confirmed swing row exists, exactly one sizing cycle
\* runs, with asset A as the high-weight asset; if something is invested and
\* there is no previous confirmed swing row, neither path is entered and
\* nothing is submitted.
C38_TieIsPivotLowWhenEvaluated ==
    [][ (BarStepOf("ratio_l") /\ PricesKnown /\ LowConfirmed /\ HighConfirmed)
          => IF Invested = 0 \/ PrevSwing # 0
             THEN RanCycleFor("A")
             ELSE RanNothing
      ]_vars

\* something is invested, a previous confirmed swing row exists, and the
\* ratio-long bar just handled confirmed both pivots: the confirmation path
\* ran one cycle, for asset A, which bought
C38_Witness ==
    /\ last_event.type = "bar" /\ last_event.stream = "ratio_l"
    /\ last_event.d.path = "normal" /\ last_event.d.high = "A"
    /\ last_event.pre_swing_l_ts # 0
    /\ NotNa(swing_levels_l.pivot_low) /\ NotNa(swing_levels_l.pivot_high)
    /\ qty["A"] > 0
    /\ Len(orders) >= 1
    /\ orders[Len(orders)].cycle = cycles
    /\ orders[Len(orders)].instrument_id = "A"

\* ------------------------------------------------------------------------
\* Properties: the swing row and the order of the breakout tests
\* ------------------------------------------------------------------------
\* the step ran a sizing cycle with asset_h = high
CycleRanWith(high) == cycles' > cycles /\ last_event'.d.high = high

\* C39: the breakout check of a ratio-short bar uses the most recent prior
\* swing row only, and the low breakout first.  With no prior swing row
\* nothing runs; a pivot the most recent swing row lacks triggers no cycle,
\* whatever older swing rows hold; a breakout cycle carries the timestamp
\* and the level of the most recent swing row; and when the low of the bar
\* is below the pivot-low of that row no cycle runs for asset A, and none at
\* all when the dedupe marker is (that row, low), whether the high of the
\* bar is above the pivot-high or not.
C39_LatestSwingRowLowFirst ==
    [][ (BarStepOf("ratio_s") /\ PricesKnown)
          => /\ PrevSwing = 0 => RanNothing
             /\ (PrevSwing # 0 /\ IsNa(df_history'[PrevSwing].swing_l_low))
                   => ~CycleRanWith("B")
             /\ (PrevSwing # 0 /\ IsNa(df_history'[PrevSwing].swing_l_high))
                   => ~CycleRanWith("A")
             /\ cycles' > cycles
                   => /\ last_event'.d.swing_ts = df_history'[PrevSwing].ts
                      /\ last_event'.d.level =
                            IF last_event'.d.dir = "low"
                            THEN df_history'[PrevSwing].swing_l_low
                            ELSE df_history'[PrevSwing].swing_l_high
             /\ BreaksLow => ~CycleRanWith("A")
             /\ (BreaksLow /\ Marked("low")) => RanNothing
      ]_vars

\* a ratio-short bar broke the pivot-low and the pivot-high of the most
\* recent swing row with the marker on (that row, low), set by the
\* ratio-short bar before it, and ran nothing
C39_Witness ==
    /\ last_event.type = "bar" /\ last_event.stream = "ratio_s"
    /\ last_event.d.path = "bos_dup" /\ last_event.d.dir = "low"
    /\ last_acted_breakout = <<last_event.d.swing_ts, "low">>
    /\ Len(short_log) = 2
    /\ short_log[1].ran = "low"
    /\ short_log[2].low_cond /\ short_log[2].high_cond /\ short_log[2].ran = "none"

\* a ratio-short bar met a most recent swing row without a pivot-low, while
\* an older swing row held a pivot-low above the low of the bar, and ran
\* the cycle of the pivot-high
C39_OlderRowIgnored ==
    /\ last_event.type = "bar" /\ last_event.stream = "ratio_s"
    /\ last_event.d.path = "bos" /\ last_event.d.dir = "high"
    /\ Len(short_log) >= 1
    /\ short_log[Len(short_log)].ran = "high"
    /\ \E i, j \in 1..Len(df_history) :
          /\ i < j
          /\ df_history[j].ts = last_event.d.swing_ts
          /\ IsNa(df_history[j].swing_l_low)
          /\ NotNa(df_history[i].swing_l_low)
          /\ cache["ratio_s"].l < df_history[i].swing_l_low

\* ------------------------------------------------------------------------
\* Properties: the ledger row of a bar
\* ------------------------------------------------------------------------
\* C40: handling a bar of timestamp t changes the ledger row keyed t only,
\* creating it at the end if there is none: every row of another timestamp
\* keeps its place, its OHLC slots, its swing values and its long_epoch;
\* the ledger has one row keyed t afterwards, which carries the bar in the
\* slots of the bar's stream and, for every other stream, the OHLC that
\* stream delivered last, i.e. its cache, which the bar leaves alone.
C40_OnlyRowOfBar ==
    [][ BarStep
          => /\ Len(df_history') =
                   IF RowsAt(df_history, last_event'.ts) = {}
                   THEN Len(df_history) + 1 ELSE Len(df_history)
             /\ \A i \in 1..Len(df_history) :
                   /\ df_history'[i].ts = df_history[i].ts
                   /\ df_history[i].ts # last_event'.ts
                         => df_history'[i] = df_history[i]
             /\ Cardinality(RowsAt(df_history', last_event'.ts)) = 1
             /\ \A i \in RowsAt(df_history', last_event'.ts) :
                   \A s \in Streams \ {last_event'.stream} :
                       /\ cache'[s] = cache[s]
                       /\ df_history'[i].c[s] = cache[s]
             /\ \A i \in RowsAt(df_history', last_event'.ts) :
                   df_history'[i].c[last_event'.stream] = cache'[last_event'.stream]
      ]_vars

\* a bar updated the row of its timestamp in place while a row of a later
\* timestamp follows it: the updated row carries, for another stream, the
\* OHLC that stream delivered with the later timestamp, and the later row
\* does not carry the bar
C40_Witness ==
    /\ last_event.type = "bar" /\ last_event.in_place
    /\ \E i, j \in 1..Len(df_history) :
          /\ i < j
          /\ df_history[i].ts = last_event.ts
          /\ df_history[j].ts > last_event.ts
          /\ IsNa(df_history[j].c[last_event.stream].c)
          /\ df_history[i].c[last_event.stream] = cache[last_event.stream]
          /\ \E s \in Streams \ {last_event.stream} :
                /\ NotNa(df_history[j].c[s].c)
                /\ df_history[i].c[s] = df_history[j].c[s]

====
